---- MODULE Spec2Model ----
(***************************************************************************)
(* A model of the fdk-rust request pipeline: the error taxonomy            *)
(* (src/errors.rs), the response envelope builder (src/utils.rs), the      *)
(* per-request RuntimeContext (src/context.rs) and the run loop of         *)
(* Function::run_impl (src/function.rs). Further specifications cover the  *)
(* listener bootstrap (src/socket.rs), the server loop, from_req on its    *)
(* own, the coercions (src/coercions.rs), the FunctionTestbench and the    *)
(* two codecs of src/codecs.rs.                                            *)
(*                                                                         *)
(* Option<T> is modelled as a sequence of length 0 (None) or 1 (Some(v)).  *)
(* A HeaderMap is a function from (lower-cased) header names to the        *)
(* sequence of values stored under that name; a HeaderValue and a Body are *)
(* strings.                                                                *)
(***************************************************************************)
EXTENDS Integers, Sequences, FiniteSets, TLC

\* ------------------------------------------------------------------ bounds

\* Number of items the input stream holds (requests or stream errors).
MaxRequests == 2
\* Number of context operations a handler performs before it returns.
MaxHandlerOps == 2

\* Number of requests the server handles in parallel.
MaxInFlight == 2

\* Length of the Strings that are encoded and decoded.
MaxTextLen == 2

\* Number of times FunctionTestbench::run is called.
MaxRuns == 2

\* Requests or responses a direction of the loopback stream holds before a
\* write to it blocks.
MaxBuffered == 1

\* ------------------------------------------------------------- Option<T>

None == <<>>
Some(v) == <<v>>
is_some(o) == o # <<>>
unwrap_or(o, d) == IF o = <<>> THEN d ELSE o[1]

\* --------------------------------------------------------- Result<T, E>

Ok(v) == [ok |-> TRUE, v |-> v]
Err(e) == [ok |-> FALSE, e |-> e]
\* Result::unwrap_or, Result::unwrap_or_default
Result_unwrap_or(r, d) == IF r.ok THEN r.v ELSE d

\* ------------------------------------------------- hyper / http primitives

\* hyper::StatusCode constants used by the source.
OK == 200
BAD_GATEWAY == 502
INTERNAL_SERVER_ERROR == 500

\* http::StatusCode::from_u16 (http 0.2, the version hyper's async API
\* builds on): Ok for a three-digit number, Err(InvalidStatusCode) otherwise.
StatusCode_from_u16(src) ==
  IF src < 100 \/ src >= 1000 THEN None ELSE Some(src)

\* StatusCode::is_client_error / is_server_error.
is_client_error(status) == 400 <= status /\ status < 500
is_server_error(status) == 500 <= status /\ status < 600

DigitChars == <<"0", "1", "2", "3", "4", "5", "6", "7", "8", "9">>

\* HeaderValue::from(u16) / HeaderValue::from(usize): the decimal text.
RECURSIVE ToDecimal(_)
ToDecimal(n) ==
  IF n < 10 THEN DigitChars[n + 1]
  ELSE ToDecimal(n \div 10) \o DigitChars[(n % 10) + 1]

\* The header names the model distinguishes (HeaderName is case-insensitive
\* and stored lower-cased).
HeaderNames ==
  {"accept", "fn-http-h-accept", "content-type", "content-length",
   "fn-http-status", "fn-fdk-version", "fn-fdk-runtime", "x-custom",
   "fn-intent", "fn-http-method", "fn-http-request-url", "fn-call-id",
   "fn-http-h-custom"}

\* HeaderName::from_str: a header name is case-insensitive and is stored in
\* lower case.
HeaderName_from_str(s) ==
  CASE s = "Fn-Http-Status" -> "fn-http-status"
    [] s = "Fn-Fdk-Version" -> "fn-fdk-version"
    [] s = "FN-FDK-RUNTIME" -> "fn-fdk-runtime"
    [] s = "Content-Type" -> "content-type"
    [] s = "X-Custom" -> "x-custom"
    [] s = "Accept" -> "accept"
    [] s = "Fn-Http-H-Accept" -> "fn-http-h-accept"
    [] s = "Fn-Intent" -> "fn-intent"
    [] s = "Fn-Http-Method" -> "fn-http-method"
    [] s = "Fn-Http-Request-Url" -> "fn-http-request-url"
    [] s = "Fn-Call-Id" -> "fn-call-id"
    [] s = "Fn-Http-H-Custom" -> "fn-http-h-custom"
    [] OTHER -> s

\* HeaderName::as_str: the stored, lower-case text of the name.
as_str(name) == name

\* str::starts_with compares the texts byte by byte, so case matters: for
\* each prefix the source uses, the texts that begin with it.
starts_with(s, prefix) ==
  CASE prefix = "fn-http-h-" -> s \in {"fn-http-h-accept", "fn-http-h-custom"}
    [] prefix = "Fn-Http-H-" -> s \in {"Fn-Http-H-Accept", "Fn-Http-H-Custom"}
    [] OTHER -> FALSE

\* Header values that hold a byte outside visible ASCII.
OpaqueValues == {"<bytes C3 A9>"}

\* HeaderMap::new()
HeaderMap_new == [n \in HeaderNames |-> <<>>]

\* HeaderMap::insert: the value replaces every value stored under the key.
HeaderMap_insert(map, key, value) == [map EXCEPT ![key] = <<value>>]

\* HeaderMap::get: the first value stored under the key, if any.
HeaderMap_get(map, key) == IF map[key] = <<>> THEN None ELSE Some(map[key][1])

\* ------------------------------------------------------------- errors.rs

FunctionErrorKind ==
  {"InvalidInput", "BadRequest", "InitializationError", "CoercionError",
   "IOError", "OtherError"}

\* FunctionErrorKind::is_user_error
is_user_error(kind) == kind \in {"InvalidInput", "BadRequest", "CoercionError"}

\* FunctionError::new: an error is a kind and the underlying cause, whose
\* Display text becomes the body of the response.
FunctionError(kind, error) == [kind |-> kind, error |-> error]

\* -------------------------------------------------------------- utils.rs

make_header_map_with_single_value(key, value) ==
  HeaderMap_insert(HeaderMap_new, key, value)

\* crate_version!() and the rustc version are build-time texts.
FdkVersion == "fdk-rust/VERSION"
FdkRuntime == "rustc/VERSION"

\* Faulty variant: a sentinel header is written only where the name is free.
generic_response_keep(status, body, headers) ==
  [status  |-> status,
   headers |-> [n \in HeaderNames |->
                  IF headers[n] # <<>> THEN headers[n]
                  ELSE IF n = "fn-fdk-version" THEN <<FdkVersion>>
                  ELSE IF n = "fn-fdk-runtime" THEN <<FdkRuntime>>
                  ELSE <<>>],
   body    |-> unwrap_or(body, "")]

generic_response(status, body, headers) ==
  [status  |-> status,
   headers |-> HeaderMap_insert(
                 HeaderMap_insert(headers, "fn-fdk-version", FdkVersion),
                 "fn-fdk-runtime", FdkRuntime),
   body    |-> unwrap_or(body, "")]

add_status_header(header, status) ==
  IF is_some(header)
  THEN HeaderMap_insert(header[1], "fn-http-status", ToDecimal(status))
  ELSE make_header_map_with_single_value("fn-http-status", ToDecimal(status))

\* Faulty variant: the logical status is also used as the outer status.
success_or_recoverable_error_outer(status, body, headers) ==
  generic_response(status, body, add_status_header(headers, status))

success_or_recoverable_error(status, body, headers) ==
  generic_response(OK, body, add_status_header(headers, status))

unrecoverable_error(status, body, headers) ==
  generic_response(BAD_GATEWAY, body, add_status_header(headers, status))

\* ------------------------------------------------- errors.rs, conversions

client_error(data) ==
  success_or_recoverable_error(
    BAD_GATEWAY, Some(data),
    Some(make_header_map_with_single_value("content-length",
                                           ToDecimal(Len(data)))))

server_error(data) ==
  unrecoverable_error(
    INTERNAL_SERVER_ERROR, Some(data),
    Some(make_header_map_with_single_value("content-length",
                                           ToDecimal(Len(data)))))

\* Faulty variant: every error is reported as a client error.
Response_from_client(e) == client_error(e.error)

\* impl From<FunctionError> for hyper::Response<Body>
Response_from(e) ==
  IF is_user_error(e.kind) THEN client_error(e.error) ELSE server_error(e.error)

\* ----------------------------------------------------------- coercions.rs

ContentType == {"JSON", "YAML", "XML", "Plain", "URLEncoded"}

ContentType_from_str(s) ==
  CASE s = "application/json" -> "JSON"
    [] s \in {"text/yaml", "application/yaml"} -> "YAML"
    [] s \in {"text/xml", "application/xml"} -> "XML"
    [] s = "text/plain" -> "Plain"
    [] s = "application/x-www-form-urlencoded" -> "URLEncoded"
    [] OTHER -> "JSON"

as_header_value(ct) ==
  CASE ct = "JSON" -> "application/json"
    [] ct = "YAML" -> "text/yaml"
    [] ct = "XML" -> "application/xml"
    [] ct = "Plain" -> "text/plain"
    [] ct = "URLEncoded" -> "application/x-www-form-urlencoded"

\* ------------------------------------- coercions.rs, encoders and decoders

\* A char is its code point, a String the sequence of its chars, a Vec<u8> a
\* sequence of numbers below 256. A value of a serializable type is either a
\* String or a struct with one String field named k.
StringValue(s) == [shape |-> "String", text |-> s]
StructValue(s) == [shape |-> "Struct", text |-> s]

\* The UTF-8 encoding of one char (code points below 65536).
utf8_char(c) ==
  IF c < 128 THEN <<c>>
  ELSE IF c < 2048 THEN <<192 + (c \div 64), 128 + (c % 64)>>
  ELSE <<224 + (c \div 4096), 128 + ((c \div 64) % 64), 128 + (c % 64)>>

\* String::into_bytes / str::as_bytes: the UTF-8 encoding of the text.
RECURSIVE as_bytes(_)
as_bytes(s) == IF s = <<>> THEN <<>> ELSE utf8_char(s[1]) \o as_bytes(Tail(s))

\* str::from_utf8: the text the bytes encode, or an error.
RECURSIVE from_utf8(_)
from_utf8(b) ==
  IF b = <<>> THEN Ok(<<>>)
  ELSE LET n == IF b[1] < 128 THEN 1
                ELSE IF 194 <= b[1] /\ b[1] < 224 THEN 2
                ELSE IF 224 <= b[1] /\ b[1] < 240 THEN 3
                ELSE 0
       IN IF n = 0 \/ Len(b) < n
             \/ \E i \in 2..n : ~(128 <= b[i] /\ b[i] < 192)
          THEN Err("invalid utf-8")
          ELSE LET c == IF n = 1 THEN b[1]
                        ELSE IF n = 2 THEN (b[1] - 192) * 64 + (b[2] - 128)
                        ELSE (b[1] - 224) * 4096 + (b[2] - 128) * 64
                               + (b[3] - 128)
                   rest == from_utf8(SubSeq(b, n + 1, Len(b)))
               IN IF rest.ok THEN Ok(<<c>> \o rest.v) ELSE rest

\* vector.chars().map(|ch| ch as u8).collect(): a cast of char to u8 keeps
\* the low eight bits of the code point.
chars_as_u8(s) == [i \in 1..Len(s) |-> s[i] % 256]

\* input.iter().map(|&v| v as char).collect::<String>(): each byte becomes
\* the char whose code point is the byte.
u8_as_chars(input) == [i \in 1..Len(input) |-> input[i]]

\* The documents of the serde libraries are modelled by the text of the
\* value between the delimiters of the format; the values of the model hold
\* no char that a format quotes or escapes, other than in URL encoding.
\* JSON: "text" and {"k":"text"}; YAML: ---\n"text"\n and ---\nk: "text"\n;
\* XML: <v><k>text</k></v>; URL encoding: k=text.
Delimiters(format, shape) ==
  CASE format = "JSON" /\ shape = "String" -> [pre |-> <<34>>, suf |-> <<34>>]
    [] format = "JSON" /\ shape = "Struct" ->
         [pre |-> <<123, 34, 107, 34, 58, 34>>, suf |-> <<34, 125>>]
    [] format = "YAML" /\ shape = "String" ->
         [pre |-> <<45, 45, 45, 10, 34>>, suf |-> <<34, 10>>]
    [] format = "YAML" /\ shape = "Struct" ->
         [pre |-> <<45, 45, 45, 10, 107, 58, 32, 34>>, suf |-> <<34, 10>>]
    [] format = "XML" ->
         [pre |-> <<60, 118, 62, 60, 107, 62>>,
          suf |-> <<60, 47, 107, 62, 60, 47, 118, 62>>]
    [] format = "URLEncoded" -> [pre |-> <<107, 61>>, suf |-> <<>>]

\* The text of a value between delimiters, and its inverse.
Write(d, text) == d.pre \o text \o d.suf
Read(d, doc) ==
  LET n == Len(doc) - Len(d.pre) - Len(d.suf) IN
  IF n >= 0 /\ SubSeq(doc, 1, Len(d.pre)) = d.pre
       /\ SubSeq(doc, Len(doc) - Len(d.suf) + 1, Len(doc)) = d.suf
  THEN Ok(SubSeq(doc, Len(d.pre) + 1, Len(d.pre) + n))
  ELSE Err("syntax error")

\* form_urlencoded::byte_serialize: a byte that is not alphanumeric is
\* written as % and two hexadecimal digits.
RECURSIVE byte_serialize(_)
byte_serialize(b) ==
  LET alphanumeric(x) ==
        (48 <= x /\ x < 58) \/ (65 <= x /\ x < 91) \/ (97 <= x /\ x < 123)
      hex(n) == IF n < 10 THEN 48 + n ELSE 55 + n
  IN IF b = <<>> THEN <<>>
     ELSE (IF alphanumeric(b[1]) THEN <<b[1]>>
           ELSE <<37, hex(b[1] \div 16), hex(b[1] % 16)>>)
            \o byte_serialize(Tail(b))

\* percent decoding: %XY becomes the byte it names; any other char stays,
\* written in UTF-8.
RECURSIVE percent_decode(_)
percent_decode(t) ==
  LET value(c) == IF 48 <= c /\ c < 58 THEN c - 48
                  ELSE IF 65 <= c /\ c < 71 THEN c - 55 ELSE 16
  IN IF t = <<>> THEN <<>>
     ELSE IF t[1] = 37 /\ Len(t) >= 3 /\ value(t[2]) < 16 /\ value(t[3]) < 16
     THEN <<value(t[2]) * 16 + value(t[3])>>
            \o percent_decode(SubSeq(t, 4, Len(t)))
     ELSE utf8_char(t[1]) \o percent_decode(Tail(t))

\* match .. { Ok(t) => Ok(t), Err(e) => Err(FunctionError::Coercion { .. }) }
coerce(r) == IF r.ok THEN r ELSE Err(FunctionError("CoercionError", r.e))

\* impl OutputCoercible for T. serde_json::to_vec and serde_yaml::to_vec give
\* the document in UTF-8; serde_xml_rs, serde_plain and serde_urlencoded give
\* a String, which the code casts char by char. serde_plain writes primitive
\* values only, serde_xml_rs and serde_urlencoded structs only.
try_encode_json(v) ==
  coerce(Ok(as_bytes(Write(Delimiters("JSON", v.shape), v.text))))
try_encode_xml(v) ==
  coerce(IF v.shape = "Struct"
         THEN Ok(chars_as_u8(Write(Delimiters("XML", v.shape), v.text)))
         ELSE Err("unsupported operation"))
try_encode_yaml(v) ==
  coerce(Ok(as_bytes(Write(Delimiters("YAML", v.shape), v.text))))
try_encode_plain(v) ==
  coerce(IF v.shape = "String" THEN Ok(chars_as_u8(v.text))
         ELSE Err("unsupported operation"))
try_encode_urlencoded(v) ==
  coerce(IF v.shape = "Struct"
         THEN Ok(chars_as_u8(Write(Delimiters("URLEncoded", v.shape),
                                   byte_serialize(as_bytes(v.text)))))
         ELSE Err("top-level serializer supports only maps and structs"))

\* impl InputCoercible for T, T being the type of the shape.
\* serde_json::from_slice and serde_yaml::from_slice read the bytes as UTF-8;
\* the other three parse the String the code builds byte by byte.
try_decode_plain(shape, input) ==
  coerce(IF shape = "String" THEN Ok(StringValue(u8_as_chars(input)))
         ELSE Err("unsupported operation"))
try_decode_json(shape, input) ==
  LET doc == from_utf8(input)
      r == IF doc.ok THEN Read(Delimiters("JSON", shape), doc.v) ELSE doc
  IN coerce(IF r.ok THEN Ok([shape |-> shape, text |-> r.v]) ELSE r)
try_decode_xml(shape, input) ==
  LET r == Read(Delimiters("XML", shape), u8_as_chars(input)) IN
  coerce(IF shape = "Struct" /\ r.ok THEN Ok(StructValue(r.v))
         ELSE Err("syntax error"))
try_decode_yaml(shape, input) ==
  LET doc == from_utf8(input)
      r == IF doc.ok THEN Read(Delimiters("YAML", shape), doc.v) ELSE doc
  IN coerce(IF r.ok THEN Ok([shape |-> shape, text |-> r.v]) ELSE r)
try_decode_urlencoded(shape, input) ==
  LET r == Read(Delimiters("URLEncoded", shape), u8_as_chars(input))
      text == IF r.ok THEN from_utf8(percent_decode(r.v)) ELSE r
  IN coerce(IF shape = "Struct" /\ text.ok THEN Ok(StructValue(text.v))
            ELSE Err("syntax error"))

\* The encoder and the decoder of a format.
encode(format, v) ==
  CASE format = "JSON" -> try_encode_json(v)
    [] format = "YAML" -> try_encode_yaml(v)
    [] format = "XML" -> try_encode_xml(v)
    [] format = "Plain" -> try_encode_plain(v)
    [] format = "URLEncoded" -> try_encode_urlencoded(v)
decode(format, shape, input) ==
  CASE format = "JSON" -> try_decode_json(shape, input)
    [] format = "YAML" -> try_decode_yaml(shape, input)
    [] format = "XML" -> try_decode_xml(shape, input)
    [] format = "Plain" -> try_decode_plain(shape, input)
    [] format = "URLEncoded" -> try_decode_urlencoded(shape, input)

\* ------------------------------------------------------------- context.rs

\* HeaderValue::to_str: the text of the value, or an error when a byte of it
\* is not visible ASCII.
HeaderValue_to_str(v) == IF v \in OpaqueValues THEN Err("ToStrError") ELSE Ok(v)

\* hyper::Method::try_from(&str): the empty text is not a method.
Method_try_from(src) ==
  IF src = "" THEN Err("InvalidMethod") ELSE Ok([method |-> src])

\* hyper::Uri::try_from(&str): the empty text is not a URI.
Uri_try_from(src) ==
  IF src = "" THEN Err("InvalidUri") ELSE Ok([uri |-> src])

\* Faulty variant: a value that is not text selects the plain decoder.
resolve_content_type_plain(v) ==
  IF is_some(v)
  THEN IF HeaderValue_to_str(v[1]).ok THEN ContentType_from_str(v[1])
       ELSE "Plain"
  ELSE "JSON"

resolve_content_type(v) ==
  IF is_some(v)
  THEN ContentType_from_str(Result_unwrap_or(HeaderValue_to_str(v[1]), ""))
  ELSE "JSON"

\* Faulty variant: Accept is consulted before Fn-Http-H-Accept.
get_accept_header_value_accept_first(headers) ==
  IF is_some(HeaderMap_get(headers, "accept"))
  THEN HeaderMap_get(headers, "accept")
  ELSE IF is_some(HeaderMap_get(headers, "fn-http-h-accept"))
       THEN HeaderMap_get(headers, "fn-http-h-accept")
       ELSE None

get_accept_header_value(headers) ==
  IF is_some(HeaderMap_get(headers, "fn-http-h-accept"))
  THEN HeaderMap_get(headers, "fn-http-h-accept")
  ELSE IF is_some(HeaderMap_get(headers, "accept"))
       THEN HeaderMap_get(headers, "accept")
       ELSE None

\* from_req, lines 62-66: the text of Fn-Intent, "" when the header is absent.
\* (The unwrap of to_str is covered by from_req_panics.)
fn_intent(req) ==
  unwrap_or(HeaderMap_get(req.headers, "fn-intent"), "")

\* Faulty variant: the headers are cloned whatever the intent is.
intent_headers_clone(req) == req.headers

\* from_req, lines 61-80: the headers the context keeps. With the intent
\* "httprequest", iter().filter(..).fold(HeaderMap::new(), insert): of each
\* name that passes the filter the value inserted last; otherwise a clone.
intent_headers(req) ==
  IF fn_intent(req) = "httprequest"
  THEN [n \in HeaderNames |->
          IF (n = "content-type" \/ starts_with(as_str(n), "Fn-Http-H-"))
               /\ req.headers[n] # <<>>
          THEN <<req.headers[n][Len(req.headers[n])]>>
          ELSE <<>>]
  ELSE req.headers

\* The unwrap calls of from_req (lines 65, 87, 92): from_req panics when
\* Fn-Intent is not text, or when a Fn-Http-Method or Fn-Http-Request-Url
\* the context keeps is not text or does not parse.
from_req_panics(req) ==
  LET intent == HeaderMap_get(req.headers, "fn-intent")
      bad(h, parse(_)) ==
        /\ is_some(h)
        /\ \/ ~HeaderValue_to_str(h[1]).ok
           \/ ~parse(h[1]).ok
  IN \/ is_some(intent) /\ ~HeaderValue_to_str(intent[1]).ok
     \/ /\ ~(is_some(intent) /\ ~HeaderValue_to_str(intent[1]).ok)
        /\ \/ bad(HeaderMap_get(intent_headers(req), "fn-http-method"),
                  Method_try_from)
           \/ bad(HeaderMap_get(intent_headers(req), "fn-http-request-url"),
                  Uri_try_from)

\* Faulty variant: the response headers start as the request's headers.
RuntimeContext_from_req_copy(req) ==
  LET headers == intent_headers(req) IN
  [headers              |-> headers,
   method               |-> IF is_some(HeaderMap_get(headers, "fn-http-method"))
                            THEN Some(Method_try_from(
                                   HeaderMap_get(headers, "fn-http-method")[1]).v)
                            ELSE None,
   content_type         |-> resolve_content_type(
                              HeaderMap_get(req.headers, "content-type")),
   accept_type          |-> resolve_content_type(
                              get_accept_header_value(req.headers)),
   uri                  |-> IF is_some(HeaderMap_get(headers, "fn-http-request-url"))
                            THEN Some(Uri_try_from(
                                   HeaderMap_get(headers, "fn-http-request-url")[1]).v)
                            ELSE None,
   call_id              |-> IF is_some(HeaderMap_get(headers, "fn-call-id"))
                            THEN Result_unwrap_or(
                                   HeaderValue_to_str(
                                     HeaderMap_get(headers, "fn-call-id")[1]), "")
                            ELSE "",
   response_headers     |-> req.headers,
   response_status_code |-> None]

\* Faulty variant: the content type and the accept type are resolved from
\* the headers the context keeps.
RuntimeContext_from_req_filtered(req) ==
  LET headers == intent_headers(req) IN
  [headers              |-> headers,
   method               |-> IF is_some(HeaderMap_get(headers, "fn-http-method"))
                            THEN Some(Method_try_from(
                                   HeaderMap_get(headers, "fn-http-method")[1]).v)
                            ELSE None,
   content_type         |-> resolve_content_type(
                              HeaderMap_get(headers, "content-type")),
   accept_type          |-> resolve_content_type(
                              get_accept_header_value(headers)),
   uri                  |-> IF is_some(HeaderMap_get(headers, "fn-http-request-url"))
                            THEN Some(Uri_try_from(
                                   HeaderMap_get(headers, "fn-http-request-url")[1]).v)
                            ELSE None,
   call_id              |-> IF is_some(HeaderMap_get(headers, "fn-call-id"))
                            THEN Result_unwrap_or(
                                   HeaderValue_to_str(
                                     HeaderMap_get(headers, "fn-call-id")[1]), "")
                            ELSE "",
   response_headers     |-> HeaderMap_new,
   response_status_code |-> None]

\* RuntimeContext::from_req, lines 82-100: the context it returns when it
\* does not panic. (config: CONFIG_FROM_ENV.clone() is kept with the server's
\* state.)
RuntimeContext_from_req(req) ==
  LET headers == intent_headers(req) IN
  [headers              |-> headers,
   method               |-> IF is_some(HeaderMap_get(headers, "fn-http-method"))
                            THEN Some(Method_try_from(
                                   HeaderMap_get(headers, "fn-http-method")[1]).v)
                            ELSE None,
   content_type         |-> resolve_content_type(
                              HeaderMap_get(req.headers, "content-type")),
   accept_type          |-> resolve_content_type(
                              get_accept_header_value(req.headers)),
   uri                  |-> IF is_some(HeaderMap_get(headers, "fn-http-request-url"))
                            THEN Some(Uri_try_from(
                                   HeaderMap_get(headers, "fn-http-request-url")[1]).v)
                            ELSE None,
   call_id              |-> IF is_some(HeaderMap_get(headers, "fn-call-id"))
                            THEN Result_unwrap_or(
                                   HeaderValue_to_str(
                                     HeaderMap_get(headers, "fn-call-id")[1]), "")
                            ELSE "",
   response_headers     |-> HeaderMap_new,
   response_status_code |-> None]

\* Faulty variant: a header that is already present keeps its first value.
add_response_header_first(ctx, key, value) ==
  IF is_some(HeaderMap_get(ctx.response_headers, HeaderName_from_str(key)))
  THEN ctx
  ELSE [ctx EXCEPT !.response_headers =
                     HeaderMap_insert(@, HeaderName_from_str(key), value)]

\* RuntimeContext::add_response_header
add_response_header(ctx, key, value) ==
  [ctx EXCEPT !.response_headers =
                HeaderMap_insert(@, HeaderName_from_str(key), value)]

\* Faulty variant: a status that is already set is not replaced.
set_status_code_first(ctx, status) ==
  LET parsed == StatusCode_from_u16(status) IN
  IF is_some(parsed)
  THEN [ctx    |-> IF is_some(ctx.response_status_code) THEN ctx
                   ELSE [ctx EXCEPT !.response_status_code = Some(parsed[1])],
        result |-> Ok("unit")]
  ELSE [ctx    |-> ctx,
        result |-> Err(FunctionError("InvalidInput",
                                     "Invalid http code added"))]

\* Faulty variant: a status that is not valid clears the status set before.
set_status_code_clear(ctx, status) ==
  LET parsed == StatusCode_from_u16(status) IN
  IF is_some(parsed)
  THEN [ctx    |-> [ctx EXCEPT !.response_status_code = Some(parsed[1])],
        result |-> Ok("unit")]
  ELSE [ctx    |-> [ctx EXCEPT !.response_status_code = None],
        result |-> Err(FunctionError("InvalidInput",
                                     "Invalid http code added"))]

\* RuntimeContext::set_status_code: the context after the call and the
\* Result it returns.
set_status_code(ctx, status) ==
  LET parsed == StatusCode_from_u16(status) IN
  IF is_some(parsed)
  THEN [ctx    |-> [ctx EXCEPT !.response_status_code = Some(parsed[1])],
        result |-> Ok("unit")]
  ELSE [ctx    |-> ctx,
        result |-> Err(FunctionError("InvalidInput",
                                     "Invalid http code added"))]

\* RuntimeContext::get_status_code
get_status_code(ctx) == ctx.response_status_code

\* ---------------------------------------------------------- hyper_utils.rs

\* Faulty variant: a server error is not told from a success.
exit_code_from_response_no_break(resp) ==
  IF is_client_error(resp.status) THEN 1 ELSE 0

\* Faulty variant: the exit code follows the logical status of the envelope.
exit_code_from_response_logical(resp) ==
  IF resp.headers["fn-http-status"] \in {<<"500">>, <<"502">>} THEN 2
  ELSE IF is_server_error(resp.status) THEN 2
  ELSE IF is_client_error(resp.status) THEN 1 ELSE 0

exit_code_from_response(resp) ==
  IF is_server_error(resp.status) THEN 2
  ELSE IF is_client_error(resp.status) THEN 1 ELSE 0

\* ----------------------------------------------------- inputs of the model

\* Inbound header maps of the requests the input can hold.
RequestHeaders ==
  {HeaderMap_new, HeaderMap_insert(HeaderMap_new, "accept", "text/yaml")}

\* What codec.next() can yield for one item: a request, or the error of a
\* failed read (DefaultCodec: read_to_end, FN_METHOD / FN_REQUEST_URL).
InputItems ==
  {Ok([headers |-> h]) : h \in RequestHeaders}
    \cup {Err(FunctionError("IOError", "read failed")),
          Err(FunctionError("OtherError", "Fatal: FN_METHOD not set."))}

\* What T::try_decode and the encoders can return.
DecodeResults == {Ok("input"), Err(FunctionError("CoercionError", "invalid type"))}
EncodeResults == {Ok("output"), Err(FunctionError("CoercionError", "not encodable"))}

\* What the user function can return: every constructor of FunctionError
\* is public.
HandlerResults ==
  {Ok("value")} \cup {Err(FunctionError(k, "bad input")) : k \in FunctionErrorKind}

\* What the state initializer can return.
InitResults ==
  {Ok("state")} \cup {Err(FunctionError(k, "init failed")) : k \in FunctionErrorKind}

\* Arguments the handler passes to set_status_code (a u16).
StatusInputs == {0, 99, 100, 201, 404, 500, 599, 600, 999, 1000, 65535}

\* Headers the handler adds with add_response_header.
HandlerHeaderNames ==
  {"Fn-Http-Status", "Fn-Fdk-Version", "FN-FDK-RUNTIME", "Content-Type",
   "X-Custom"}
HandlerHeaderValues == {"a", "b"}
\* The calls of add_response_header the handler makes: every name with the
\* value "a", and X-Custom also with the value "b".
HandlerHeaders ==
  {<<k, v>> \in HandlerHeaderNames \X HandlerHeaderValues :
     v = "a" \/ k = "X-Custom"}

\* --------------------------------------------------------------- socket.rs

\* A value of FN_LISTENER is a sequence of tokens: names, ":" and "/".
\* String::push_str over the tokens gives its text.
RECURSIVE Join(_)
Join(t) == IF t = <<>> THEN "" ELSE t[1] \o Join(Tail(t))

\* The tokens of a URL after "//" and the authority: the path.
RECURSIVE DropAuthority(_)
DropAuthority(t) ==
  IF t = <<>> \/ t[1] = "/" THEN t ELSE DropAuthority(Tail(t))

\* url::Url::parse: a URL is a scheme, ":" and the rest; anything else is
\* Err(RelativeUrlWithoutBase). The path starts after "//authority", if any.
Url_parse(t) ==
  IF Len(t) >= 2 /\ t[1] \notin {":", "/"} /\ t[2] = ":"
  THEN LET rest == SubSeq(t, 3, Len(t)) IN
       Ok([scheme |-> t[1],
           path   |-> IF Len(rest) >= 2 /\ rest[1] = "/" /\ rest[2] = "/"
                      THEN DropAuthority(SubSeq(rest, 3, Len(rest)))
                      ELSE rest,
           text   |-> Join(t)])
  ELSE Err("relative URL without a base")

\* Path::new: the components of a path.
Path_new(path) == SelectSeq(path, LAMBDA x : x # "/")

\* Path::parent: None for the root.
Path_parent(p) == IF p = <<>> THEN None ELSE Some(SubSeq(p, 1, Len(p) - 1))

\* Path::file_name: None for the root and for a path that ends in "..".
Path_file_name(p) ==
  IF p = <<>> \/ p[Len(p)] = ".." THEN None ELSE Some(p[Len(p)])

\* Path::join
Path_join(p, name) == Append(p, name)

\* Faulty variant: "default" is accepted as a format too.
format_supported_default(fn_format) ==
  fn_format \in {"http-stream", "", "default"}

\* fn_format.as_str() != "http-stream" && fn_format.as_str() != "", negated
format_supported(fn_format) == fn_format = "http-stream" \/ fn_format = ""

\* let socket_file_path = Path::new(socket_url.path())
socket_file_path(url) == Path_new(url.path)

\* Faulty variant: the phony socket is put next to the target's directory.
phony_socket_file_path_up(target) ==
  Path_join(SubSeq(target, 1, Len(target) - 2),
            "phony" \o Path_file_name(target)[1])

\* let phony_socket_file_path = Path::new(parent).join(format!("phony{}", ..))
phony_socket_file_path(target) ==
  Path_join(Path_parent(target)[1], "phony" \o Path_file_name(target)[1])

\* 0o666
Mode666 == 438

\* The modes a socket file can have right after bind (0o777 less the umask).
BindModes == {493, 448}

\* What lies at a path: nothing, a directory, a socket file, a symbolic link.
Absent == [kind |-> "absent", mode |-> 0, link |-> "", bound |-> FALSE]
Directory == [kind |-> "dir", mode |-> 493, link |-> "", bound |-> FALSE]
Socket(mode, bound) ==
  [kind |-> "socket", mode |-> mode, link |-> "", bound |-> bound]
Symlink(content) ==
  [kind |-> "symlink", mode |-> 511, link |-> content, bound |-> FALSE]

\* std::fs::remove_file: removes a file, socket or link; fails (io::Error)
\* where nothing lies, on a directory, or when the removal is not permitted.
remove_file(files, path, permitted) ==
  IF files[path].kind = "absent"
  THEN [files |-> files, result |-> Err("No such file or directory")]
  ELSE IF files[path].kind \in {"socket", "symlink"} /\ permitted
  THEN [files |-> [files EXCEPT ![path] = Absent], result |-> Ok("unit")]
  ELSE [files |-> files, result |-> Err("Operation not permitted")]

\* UnixListener::bind: creates the socket file and listens on it; fails
\* where something lies at the path, or for another io::Error.
UnixListener_bind(files, path, mode, io_ok) ==
  IF files[path].kind = "absent" /\ io_ok
  THEN [files |-> [files EXCEPT ![path] = Socket(mode, TRUE)],
        result |-> Ok(path)]
  ELSE [files |-> files, result |-> Err("Address already in use")]

\* std::fs::set_permissions(path, Permissions::from_mode(mode))
set_permissions(files, path, mode, io_ok) ==
  IF files[path].kind # "absent" /\ io_ok
  THEN [files |-> [files EXCEPT ![path].mode = mode], result |-> Ok("unit")]
  ELSE [files |-> files, result |-> Err("Operation not permitted")]

\* std::os::unix::fs::symlink(original, link): fails where something lies
\* at link, or for another io::Error.
symlink(files, original, link, io_ok) ==
  IF files[link].kind = "absent" /\ io_ok
  THEN [files |-> [files EXCEPT ![link] = Symlink(original)],
        result |-> Ok("unit")]
  ELSE [files |-> files, result |-> Err("File exists")]

\* Dropping the UnixListener closes it; the socket file stays.
drop_listener(files, path) == [files EXCEPT ![path].bound = FALSE]

\* Faulty variant: the link is made before the permissions are set.
bootstrap_steps_link_first ==
  <<"remove_target", "remove_phony", "bind", "symlink", "set_permissions">>

\* The file-system calls of UDS::new, in the order of its statements.
bootstrap_steps ==
  <<"remove_target", "remove_phony", "bind", "set_permissions", "symlink">>

\* Values FN_FORMAT can have (None: not set).
FormatValues ==
  {None, Some(""), Some("http-stream"), Some("default"), Some("weird")}

\* Values FN_LISTENER can have (None: not set).
ListenerTokens ==
  {<<"unix", ":", "/", "tmp", "/", "lsnr.sock">>,
   <<"unix", ":", "/", "/", "/", "iofs", "/", "lsnr.sock">>,
   <<"unix", ":", "/">>,
   <<"unix", ":">>,
   <<"tcp", ":", "/", "/", "host", "/", "lsnr.sock">>,
   <<"lsnr.sock">>,
   <<>>}
ListenerValues == {None} \cup {Some(t) : t \in ListenerTokens}

\* The paths of the file system: the targets the listener values name and
\* their phony sockets.
TargetPaths == {<<"tmp", "lsnr.sock">>, <<"iofs", "lsnr.sock">>}
FsPaths == TargetPaths \cup {phony_socket_file_path(t) : t \in TargetPaths}

\* What can lie at a path when the process starts: nothing, a stale socket
\* file or link of an earlier process, or a directory.
StaleEntries == {Absent, Socket(Mode666, FALSE), Directory}

\* ------------------------------------------------------------------ state

VARIABLES
  input,        \* items the input stream still holds
  taken,        \* items codec.next() has yielded so far
  pc,           \* position of run_impl
  ctx,          \* Option<RuntimeContext> of the request in flight
  ops,          \* context operations the handler has performed
  resp,         \* Option<Response>: the response of the item in flight
  cause,        \* how resp came about: the stage and the error kind
  trace,        \* the stages the item in flight went through
  last_set,     \* Option: argument and outcome of the last set_status_code
  set_ok,       \* Option: argument of the last set_status_code that returned Ok
  added,        \* per header name, the value the handler gave it last, if any
  responses,    \* responses handed to the writer (the responses hook)
  output,       \* responses the writer wrote
  error_log,    \* lines written to the error log
  last_status   \* exit code of the loop so far; at "done", of run_impl

\* The state of the listener bootstrap (UDS::new) and of its file system.
VARIABLES
  benv,         \* the environment: FN_FORMAT and FN_LISTENER
  fs,           \* the file system: what lies at each path
  bpc,          \* position of UDS::new
  bstep,        \* the file-system step of UDS::new that comes next
  bresult,      \* Option<Result<UDS, FunctionError>>: what UDS::new returned
  fs_log,       \* the file-system calls UDS::new has made
  accepted      \* connections accepted through the listener (poll_accept)

boot_vars == <<benv, fs, bpc, bstep, bresult, fs_log, accepted>>

\* The state of the server: requests handled in parallel, the process
\* environment, the config map and the buffer pool.
VARIABLES
  start_env,    \* the process environment as it was at process start
  cenv,         \* the process environment, as std::env::vars() would read it
  config,       \* Option: CONFIG_FROM_ENV, None until its first use
  capacity,     \* the capacity the buffer pool was created with
  pool,         \* the free buffers of the pool
  rq            \* per request: its position, context, buffer and response

conc_vars == <<start_env, cenv, config, capacity, pool, rq>>

\* One call of RuntimeContext::from_req, taken on its own.
VARIABLES
  inbound,      \* the request from_req is called with: its header map
  made          \* Option: what the call gave, a context or a panic

ctx_vars == <<inbound, made>>

\* One value taken through an encoder and back through the decoder of the
\* same format, and one external error lifted into a FunctionError.
VARIABLES
  cformat,      \* the format
  cvalue,       \* the value that is encoded
  cstage,       \* "value", then "encoded", then "decoded"; or "input"
  cbytes,       \* Option<Result<Vec<u8>, FunctionError>>: the encoder's result
  cback,        \* Option<Result<T, FunctionError>>: the decoder's result
  ecause,       \* the external error
  elifted       \* Option: what the conversion of ecause gave

codec_vars == <<cformat, cvalue, cstage, cbytes, cback, ecause, elifted>>

\* The state of a FunctionTestbench.
VARIABLES
  tb_requests,  \* self.requests: the enqueued requests
  tb_responses, \* self.responses
  test_out,     \* self.test_out: the responses written to the mock output
  test_err,     \* self.test_err: the lines written to the mock error log
  tb_runs,      \* calls of run so far
  tb_exit,      \* Option: the exit code the last call of run returned
  tb_last       \* Option: what the last operation, if it was run, worked on

bench_vars ==
  <<tb_requests, tb_responses, test_out, test_err, tb_runs, tb_exit, tb_last>>

\* The state of an HttpCodec: its three threads, the loopback stream between
\* them, the event channel and the loop that calls next.
VARIABLES
  stdin_all,    \* the input as it was given, for reference
  stdin,        \* the items of the input the push thread has not read yet
  push_pc,      \* position of the push thread
  to_server,    \* requests written to the stream and not yet read by the server
  server_pc,    \* position of the server thread
  from_server,  \* responses written to the stream and not yet read
  event_rx,     \* the messages the event channel holds
  yielded,      \* the items next has returned so far
  codec_pc      \* "loop" while next returns items, "ended" once it returned None

http_vars ==
  <<stdin_all, stdin, push_pc, to_server, server_pc, from_server, event_rx,
    yielded, codec_pc>>

\* The state of a DefaultCodec and of the loop of run_impl that reads it.
VARIABLES
  dc_env,       \* the environment the codec was created with
  dc_read,      \* self.read
  dc_items,     \* what the calls of next have returned so far
  dc_out,       \* the response bodies written to the output
  dc_pc,        \* position of the loop: "next", "respond" or "done"
  dc_resp       \* Option: the item being answered

default_vars == <<dc_env, dc_read, dc_items, dc_out, dc_pc, dc_resp>>

\* The variables of the other parts of the program.
others ==
  <<boot_vars, conc_vars, ctx_vars, codec_vars, bench_vars, http_vars,
    default_vars>>

vars ==
  <<input, taken, pc, ctx, ops, resp, cause, trace, last_set, set_ok, added,
    responses, output, error_log, last_status, others>>

\* The listener bootstrap has not been started.
BootIdle ==
  /\ benv = [format |-> None, listener |-> None]
  /\ fs = [p \in FsPaths |-> Absent]
  /\ bpc = "off"
  /\ bstep = 0
  /\ bresult = None
  /\ fs_log = <<>>
  /\ accepted = 0

\* No request is served in parallel.
ConcIdle ==
  /\ start_env = [k \in {} |-> ""]
  /\ cenv = [k \in {} |-> ""]
  /\ config = None
  /\ capacity = 0
  /\ pool = <<>>
  /\ rq = <<>>

\* from_req is not called on its own.
CtxIdle ==
  /\ inbound = HeaderMap_new
  /\ made = None

\* No value is being encoded and no error lifted.
CodecIdle ==
  /\ cformat = "JSON"
  /\ cvalue = [shape |-> "String", text |-> <<>>]
  /\ cstage = "off"
  /\ cbytes = None
  /\ cback = None
  /\ ecause = [from |-> "none", text |-> ""]
  /\ elifted = None

\* No FunctionTestbench exists.
BenchIdle ==
  /\ tb_requests = <<>>
  /\ tb_responses = <<>>
  /\ test_out = <<>>
  /\ test_err = 0
  /\ tb_runs = 0
  /\ tb_exit = None
  /\ tb_last = None

\* No HttpCodec exists.
HttpIdle ==
  /\ stdin_all = <<>>
  /\ stdin = <<>>
  /\ push_pc = "off"
  /\ to_server = <<>>
  /\ server_pc = "off"
  /\ from_server = 0
  /\ event_rx = <<>>
  /\ yielded = <<>>
  /\ codec_pc = "off"

\* No DefaultCodec exists.
DefaultIdle ==
  /\ dc_env = [method |-> None, url |-> None, header |-> None]
  /\ dc_read = FALSE
  /\ dc_items = <<>>
  /\ dc_out = <<>>
  /\ dc_pc = "off"
  /\ dc_resp = None

\* The other parts of the program are at rest.
OthersIdle ==
  /\ BootIdle /\ ConcIdle /\ CtxIdle /\ CodecIdle /\ BenchIdle /\ HttpIdle
  /\ DefaultIdle

\* ------------------------------------------------- function.rs, run_impl

\* The pipeline hands the handler a context built from the request.
receive(req) == Some(RuntimeContext_from_req(req))

\* Emit: Content-Type of the accept type joins the handler's headers and
\* the envelope carries the handler-set status, or 200 OK.
emit(c, bytes) ==
  success_or_recoverable_error(
    unwrap_or(get_status_code(c), OK), Some(bytes),
    Some(HeaderMap_insert(c.response_headers, "content-type",
                          as_header_value(c.accept_type))))

\* match maybe_evt { Ok(req) => ..., Err(e) => e.into() }
match_evt(item) ==
  IF item.ok THEN [pc |-> "decode", resp |-> None]
  ELSE [pc |-> "respond", resp |-> Some(Response_from(item.e))]

\* Faulty variant: a decode failure skips to the next item without a response.
match_decode_skip(d) ==
  IF d.ok THEN [pc |-> "invoke", resp |-> None]
  ELSE [pc |-> "next", resp |-> None]

\* Faulty variant: the handler is invoked although decoding failed.
match_decode_invoke(d) == [pc |-> "invoke", resp |-> None]

\* match T::try_decode(req) { Ok(i) => ..., Err(e) => e.into() }
match_decode(d) ==
  IF d.ok THEN [pc |-> "invoke", resp |-> None]
  ELSE [pc |-> "respond", resp |-> Some(Response_from(d.e))]

\* Faulty variant: a status the handler set is honoured when it returns Err.
match_res_status(r) ==
  IF r.ok THEN [pc |-> "encode", resp |-> None]
  ELSE [pc   |-> "respond",
        resp |-> Some(IF is_some(get_status_code(ctx[1]))
                      THEN success_or_recoverable_error(
                             get_status_code(ctx[1])[1], Some(r.e.error), None)
                      ELSE Response_from(r.e))]

\* match maybe_res { Ok(res) => ..., Err(e) => e.into() }
match_res(r) ==
  IF r.ok THEN [pc |-> "encode", resp |-> None]
  ELSE [pc |-> "respond", resp |-> Some(Response_from(r.e))]

\* match U::try_encode(res) { Ok(o) => o, Err(e) => e.into() }
match_encode(c, r) ==
  IF r.ok THEN [pc |-> "respond", resp |-> Some(emit(c, r.v))]
  ELSE [pc |-> "respond", resp |-> Some(Response_from(r.e))]

\* Faulty variant: the loop is entered although the initializer failed.
match_initializer_enter(r) == [pc |-> "next", resp |-> None]

\* match initializer(&rc) { Ok(s) => s, Err(e) => { let resp = e.into(); .. } }
match_initializer(r) ==
  IF r.ok THEN [pc |-> "next", resp |-> None]
  ELSE [pc |-> "init_failed", resp |-> Some(Response_from(r.e))]

\* The record kept with a stage's outcome.
Cause(stage, r) == [stage |-> stage, kind |-> IF r.ok THEN "none" ELSE r.e.kind]
Step(stage, r) == [stage |-> stage, ok |-> r.ok]

\* What the logs keep of a response: the item it answers, its outer status,
\* its Fn-Http-Status values, and the stage and error kind it came from.
Entry ==
  [req     |-> taken,
   status  |-> resp[1].status,
   logical |-> resp[1].headers["fn-http-status"],
   stage   |-> cause.stage,
   kind    |-> cause.kind]

NoCause == [stage |-> "none", kind |-> "none"]

Init ==
  /\ input \in 0..MaxRequests
  /\ taken = 0
  /\ pc = "init"
  /\ ctx = None
  /\ ops = 0
  /\ resp = None
  /\ cause = NoCause
  /\ trace = <<>>
  /\ last_set = None
  /\ set_ok = None
  /\ added = HeaderMap_new
  /\ responses = <<>>
  /\ output = <<>>
  /\ error_log = 0
  /\ last_status = 0
  /\ OthersIdle

\* let mut state = match initializer(&rc) { Ok(s) => s, Err(e) => ... }
Initialize ==
  /\ pc = "init"
  /\ \E r \in InitResults :
       LET m == match_initializer(r) IN
       /\ pc' = m.pc
       /\ resp' = m.resp
       /\ cause' = IF r.ok THEN NoCause ELSE Cause("Initialize", r)
  /\ UNCHANGED <<others, added, input, taken, ctx, ops, trace, last_set, set_ok, responses,
                 output, error_log, last_status>>

\* The Err arm of the initializer: hook.send; codec.try_write; return 2.
InitRespond ==
  /\ pc = "init_failed"
  /\ responses' = Append(responses, Entry)
  /\ \E written \in BOOLEAN :
       /\ output' = IF written THEN Append(output, Entry) ELSE output
       /\ error_log' = IF written THEN error_log ELSE error_log + 1
  /\ last_status' = 2
  /\ pc' = "done"
  /\ resp' = None
  /\ cause' = NoCause
  /\ UNCHANGED <<others, added, input, taken, ctx, ops, trace, last_set, set_ok>>

\* while let Some(maybe_evt) = codec.next(): an item is taken.
NextItem ==
  /\ pc = "next"
  /\ input > 0
  /\ \E item \in InputItems :
       LET m == match_evt(item) IN
       /\ pc' = m.pc
       /\ resp' = m.resp
       /\ ctx' = IF item.ok THEN receive(item.v) ELSE None
       /\ cause' = Cause("Receive", item)
       /\ trace' = <<Step("Receive", item)>>
  /\ input' = input - 1
  /\ taken' = taken + 1
  /\ ops' = 0
  /\ last_set' = None
  /\ set_ok' = None
  /\ added' = HeaderMap_new
  /\ UNCHANGED <<others, responses, output, error_log, last_status>>

\* codec.next() returns None: the loop ends and run_impl returns.
EndOfInput ==
  /\ pc = "next"
  /\ input = 0
  /\ pc' = "done"
  /\ UNCHANGED <<others, added, input, taken, ctx, ops, resp, cause, trace, last_set, set_ok,
                 responses, output, error_log, last_status>>

Decode ==
  /\ pc = "decode"
  /\ \E d \in DecodeResults :
       LET m == match_decode(d) IN
       /\ pc' = m.pc
       /\ resp' = m.resp
       /\ cause' = Cause("Decode", d)
       /\ trace' = Append(trace, Step("Decode", d))
  /\ UNCHANGED <<others, added, input, taken, ctx, ops, last_set, set_ok, responses, output,
                 error_log, last_status>>

\* The handler calls ctx.set_status_code(status).
HandlerSetStatus ==
  /\ pc = "invoke"
  /\ ops < MaxHandlerOps
  /\ \E status \in StatusInputs :
       LET r == set_status_code(ctx[1], status) IN
       /\ ctx' = Some(r.ctx)
       /\ last_set' = Some([status |-> status, ok |-> r.result.ok])
       /\ set_ok' = IF r.result.ok THEN Some(status) ELSE set_ok
  /\ ops' = ops + 1
  /\ UNCHANGED <<others, added, input, taken, pc, resp, cause, trace, responses, output,
                 error_log, last_status>>

\* The handler calls ctx.add_response_header(key, value).
HandlerAddHeader ==
  /\ pc = "invoke"
  /\ ops < MaxHandlerOps
  /\ \E h \in HandlerHeaders :
       /\ ctx' = Some(add_response_header(ctx[1], h[1], h[2]))
       /\ added' = [added EXCEPT ![HeaderName_from_str(h[1])] = <<h[2]>>]
  /\ ops' = ops + 1
  /\ UNCHANGED <<others, input, taken, pc, resp, cause, trace, last_set, set_ok,
                 responses, output, error_log, last_status>>

\* let maybe_res = func(&mut state, i): the handler returns.
HandlerReturn ==
  /\ pc = "invoke"
  /\ \E r \in HandlerResults :
       LET m == match_res(r) IN
       /\ pc' = m.pc
       /\ resp' = m.resp
       /\ cause' = Cause("Invoke", r)
       /\ trace' = Append(trace, Step("Invoke", r))
  /\ UNCHANGED <<others, added, input, taken, ctx, ops, last_set, set_ok, responses, output,
                 error_log, last_status>>

Encode ==
  /\ pc = "encode"
  /\ \E r \in EncodeResults :
       LET m == match_encode(ctx[1], r) IN
       /\ pc' = m.pc
       /\ resp' = m.resp
       /\ cause' = Cause("Encode", r)
       /\ trace' = Append(trace, Step("Encode", r))
  /\ UNCHANGED <<others, added, input, taken, ctx, ops, last_set, set_ok, responses, output,
                 error_log, last_status>>

\* last_status = exit_code_from_response(&resp); hook.send; codec.try_write;
\* if last_status > 1 { break }
Respond ==
  /\ pc = "respond"
  /\ responses' = Append(responses, Entry)
  /\ \E written \in BOOLEAN :
       LET code == IF written THEN exit_code_from_response(resp[1]) ELSE 2 IN
       /\ output' = IF written THEN Append(output, Entry) ELSE output
       /\ error_log' = IF written THEN error_log ELSE error_log + 1
       /\ last_status' = code
       /\ pc' = IF code > 1 THEN "done" ELSE "next"
  /\ ctx' = None
  /\ resp' = None
  /\ ops' = 0
  /\ cause' = NoCause
  /\ trace' = <<>>
  /\ last_set' = None
  /\ set_ok' = None
  /\ added' = HeaderMap_new
  /\ UNCHANGED <<others, input, taken>>

Next ==
  \/ Initialize
  \/ InitRespond
  \/ NextItem
  \/ EndOfInput
  \/ Decode
  \/ HandlerSetStatus
  \/ HandlerAddHeader
  \/ HandlerReturn
  \/ Encode
  \/ Respond

Spec == Init /\ [][Next]_vars

\* ------------------------------------------------- socket.rs, UDS::new

\* The run loop is not started.
PipelineIdle ==
  /\ input = 0
  /\ taken = 0
  /\ pc = "off"
  /\ ctx = None
  /\ ops = 0
  /\ resp = None
  /\ cause = NoCause
  /\ trace = <<>>
  /\ last_set = None
  /\ set_ok = None
  /\ added = HeaderMap_new
  /\ responses = <<>>
  /\ output = <<>>
  /\ error_log = 0
  /\ last_status = 0

pipeline_vars ==
  <<input, taken, pc, ctx, ops, resp, cause, trace, last_set, set_ok, added,
    responses, output, error_log, last_status>>

\* What the listener bootstrap leaves alone: the variables of the other parts.
boot_others == <<pipeline_vars, conc_vars, ctx_vars, codec_vars, bench_vars,
    http_vars, default_vars>>

\* What the server leaves alone: the variables of the other parts.
srv_others == <<pipeline_vars, boot_vars, ctx_vars, codec_vars, bench_vars,
    http_vars, default_vars>>

\* The statements of UDS::new before the first file-system call: what they
\* return, or that they panic, or the target path they pass on.
UDS_new_checks(env) ==
  IF is_some(env.format) /\ ~format_supported(env.format[1])
  THEN [to |-> "returned",
        r  |-> Err(FunctionError(
                 "InitializationError",
                 "Unsupported FN_FORMAT specified: " \o env.format[1]))]
  ELSE IF env.listener = None
  THEN [to |-> "returned",
        r  |-> Err(FunctionError("InitializationError",
                                 "FN_LISTENER not found in env"))]
  ELSE LET parsed == Url_parse(env.listener[1]) IN
       IF ~parsed.ok
       THEN [to |-> "panicked", r |-> parsed]
       ELSE IF parsed.v.scheme # "unix" \/ parsed.v.path = <<>>
       THEN [to |-> "returned",
             r  |-> Err(FunctionError(
                      "InitializationError",
                      "Malformed FN_LISTENER specified: " \o parsed.v.text))]
       ELSE IF Path_parent(socket_file_path(parsed.v)) = None
                 \/ Path_file_name(socket_file_path(parsed.v)) = None
       THEN [to |-> "panicked", r |-> Err("unwrap on None")]
       ELSE [to |-> "running", r |-> Ok(socket_file_path(parsed.v))]

\* The target path and the phony path of a bootstrap that passed the checks.
Target == UDS_new_checks(benv).r.v
Phony == phony_socket_file_path(Target)

\* The record of a file-system call: the call and its io::Result.
FsCall(call, result) ==
  [call |-> call, ok |-> result.ok, e |-> IF result.ok THEN "" ELSE result.e]

\* What UDS::new returns when a file-system call fails.
io_error(context, e) ==
  Err(FunctionError("InitializationError", context \o e))

BootInit ==
  /\ PipelineIdle
  /\ ConcIdle
  /\ CtxIdle
  /\ CodecIdle
  /\ BenchIdle
  /\ HttpIdle
  /\ DefaultIdle
  /\ benv \in [format : FormatValues, listener : ListenerValues]
  /\ fs \in [FsPaths -> StaleEntries]
  /\ bpc = "start"
  /\ bstep = 0
  /\ bresult = None
  /\ fs_log = <<>>
  /\ accepted = 0

\* Lines 15-45: the checks of FN_FORMAT and FN_LISTENER and the two paths.
UdsChecks ==
  /\ bpc = "start"
  /\ LET c == UDS_new_checks(benv) IN
       /\ bpc' = c.to
       /\ bresult' = IF c.to = "returned" THEN Some(c.r) ELSE None
       /\ bstep' = IF c.to = "running" THEN 1 ELSE 0
  /\ UNCHANGED <<boot_others, benv, fs, fs_log, accepted>>

\* let _ = fs::remove_file(&socket_file_path)
UdsRemoveTarget ==
  /\ bpc = "running"
  /\ bootstrap_steps[bstep] = "remove_target"
  /\ \E permitted \in BOOLEAN :
       LET r == remove_file(fs, Target, permitted) IN
       /\ fs' = r.files
       /\ fs_log' = Append(fs_log, FsCall("remove_target", r.result))
  /\ bstep' = bstep + 1
  /\ UNCHANGED <<boot_others, benv, bpc, bresult, accepted>>

\* let _ = fs::remove_file(&phony_socket_file_path)
UdsRemovePhony ==
  /\ bpc = "running"
  /\ bootstrap_steps[bstep] = "remove_phony"
  /\ \E permitted \in BOOLEAN :
       LET r == remove_file(fs, Phony, permitted) IN
       /\ fs' = r.files
       /\ fs_log' = Append(fs_log, FsCall("remove_phony", r.result))
  /\ bstep' = bstep + 1
  /\ UNCHANGED <<boot_others, benv, bpc, bresult, accepted>>

\* The step after the one at bstep, or the return of Ok(socket).
UdsAdvance(files) ==
  IF bstep < Len(bootstrap_steps)
  THEN /\ bstep' = bstep + 1
       /\ bpc' = bpc
       /\ bresult' = bresult
       /\ fs' = files
  ELSE /\ bstep' = 0
       /\ bpc' = "returned"
       /\ bresult' = Some(Ok(Phony))
       /\ fs' = files

\* A failed step: the listener, if bound, is dropped and Err is returned.
UdsFail(files, e) ==
  /\ bstep' = 0
  /\ bpc' = "returned"
  /\ bresult' = Some(e)
  /\ fs' = IF files[Phony].bound THEN drop_listener(files, Phony) ELSE files

\* let listener = match UnixListener::bind(&phony_socket_file_path) { .. }
UdsBind ==
  /\ bpc = "running"
  /\ bootstrap_steps[bstep] = "bind"
  /\ \E mode \in BindModes, io_ok \in BOOLEAN :
       LET b == UnixListener_bind(fs, Phony, mode, io_ok) IN
       /\ IF b.result.ok
          THEN UdsAdvance(b.files)
          ELSE UdsFail(b.files,
                       io_error("Error while creating the listener: ",
                                b.result.e))
       /\ fs_log' = Append(fs_log, FsCall("bind", b.result))
  /\ UNCHANGED <<boot_others, benv, accepted>>

\* match std::fs::set_permissions(&phony_socket_file_path, 0o666) { .. }
UdsSetPermissions ==
  /\ bpc = "running"
  /\ bootstrap_steps[bstep] = "set_permissions"
  /\ \E io_ok \in BOOLEAN :
       LET c == set_permissions(fs, Phony, Mode666, io_ok) IN
       /\ IF c.result.ok
          THEN UdsAdvance(c.files)
          ELSE UdsFail(c.files,
                       io_error(
                         "Error while giving permissions to socket file: ",
                         c.result.e))
       /\ fs_log' = Append(fs_log, FsCall("set_permissions", c.result))
  /\ UNCHANGED <<boot_others, benv, accepted>>

\* match symlink(phony file name, socket_file_path) { .. }
UdsSymlink ==
  /\ bpc = "running"
  /\ bootstrap_steps[bstep] = "symlink"
  /\ \E io_ok \in BOOLEAN :
       LET l == symlink(fs, Path_file_name(Phony)[1], Target, io_ok) IN
       /\ IF l.result.ok
          THEN UdsAdvance(l.files)
          ELSE UdsFail(l.files, io_error("Error while creating symlink: ",
                                         l.result.e))
       /\ fs_log' = Append(fs_log, FsCall("symlink", l.result))
  /\ UNCHANGED <<boot_others, benv, accepted>>

\* impl Accept for UDS, poll_accept: a connection is accepted through the
\* listener UDS::new returned.
UdsPollAccept ==
  /\ bpc = "returned"
  /\ bresult[1].ok
  /\ accepted < MaxRequests
  /\ accepted' = accepted + 1
  /\ UNCHANGED <<boot_others, benv, fs, bpc, bstep, bresult, fs_log>>

BootNext ==
  \/ UdsChecks
  \/ UdsRemoveTarget
  \/ UdsRemovePhony
  \/ UdsBind
  \/ UdsSetPermissions
  \/ UdsSymlink
  \/ UdsPollAccept

BootSpec == BootInit /\ [][BootNext]_vars

\* ------------------------------------------- the server: parallel requests

\* The environment variables the model follows.
EnvKeys == {"FN_APP_ID", "FN_FN_ID"}

\* The environments the process can have: per key None (not set) or a value.
Environments ==
  {[k \in EnvKeys |-> IF k = "FN_APP_ID" THEN Some("app") ELSE Some("")],
   [k \in EnvKeys |-> IF k = "FN_APP_ID" THEN None ELSE Some("fn")]}

\* std::env::vars().filter(|(_, v)| !v.as_bytes().is_empty()).fold(..): the
\* map of the variables that are set to a non-empty value.
config_from(env) ==
  [k \in EnvKeys |-> IF is_some(env[k]) /\ env[k][1] # "" THEN env[k] ELSE None]

\* Faulty variant: the map is built from the environment at every use.
CONFIG_FROM_ENV_fresh(cfg, env) == Some(config_from(env))

\* lazy_static CONFIG_FROM_ENV: built from the environment at the first use
\* and the same value at every later one.
CONFIG_FROM_ENV(cfg, env) == IF is_some(cfg) THEN cfg ELSE Some(config_from(env))

\* The pool when created: a fixed number of empty buffers.
BufferPool_new(size) == [i \in 1..size |-> [id |-> i, data |-> ""]]

\* try_acquire: a free buffer, taken out of the pool, or exhaustion (None);
\* it never waits.
try_acquire(p) ==
  IF p = <<>> THEN [pool |-> p, buffer |-> None]
  ELSE [pool |-> SubSeq(p, 1, Len(p) - 1), buffer |-> Some(p[Len(p)])]

\* Faulty variant: the buffer goes back to the pool as it is.
release_dirty(p, b) == Append(p, b)

\* The drop of a borrowed buffer: it is cleared and put back into the pool.
release(p, b) == Append(p, [b EXCEPT !.data = ""])

\* Faulty variant: exhaustion is reported as an error of the caller.
pool_exhausted_invalid_input ==
  FunctionError("InvalidInput", "buffer pool exhausted")

\* Exhaustion of the pool is surfaced as an Other error.
pool_exhausted == FunctionError("OtherError", "buffer pool exhausted")

\* The request every connection carries here, and what its stages can do.
SrvRequest == [headers |-> HeaderMap_insert(HeaderMap_new, "accept", "text/yaml")]
SrvStatusInputs == {404}
\* The handler puts the number of the request it serves into X-Custom.
SrvHeaders(r) == {<<"X-Custom", ToDecimal(r)>>}
SrvHandlerResults == {Ok("value"), Err(FunctionError("InvalidInput", "bad input"))}
SrvDrainResults == {Ok("body"), Err(FunctionError("IOError", "read failed"))}

Requests == 1..MaxInFlight

\* What the handler of a request did to its context.
NoCalls == [status |-> None, headers |-> HeaderMap_new]

\* A request that has not been received yet.
NewRequest ==
  [pc |-> "new", ctx |-> None, config |-> None, buf |-> None, resp |-> None,
   calls |-> NoCalls, end |-> "none"]

SrvInit ==
  /\ PipelineIdle
  /\ BootIdle
  /\ CtxIdle
  /\ CodecIdle
  /\ BenchIdle
  /\ HttpIdle
  /\ DefaultIdle
  /\ start_env \in Environments
  /\ cenv = start_env
  /\ config = None
  /\ capacity \in 1..MaxInFlight
  /\ pool = BufferPool_new(capacity)
  /\ rq = [r \in Requests |-> NewRequest]

\* A terminal state: the response is final, the context is gone and the
\* buffer, if one is borrowed, is dropped.
SrvTerminal(r, response, end) ==
  /\ rq' = [rq EXCEPT ![r].pc = "done", ![r].resp = Some(response),
                       ![r].ctx = None, ![r].buf = None, ![r].end = end]
  /\ pool' = IF is_some(rq[r].buf) THEN release(pool, rq[r].buf[1]) ELSE pool

\* Receive: RuntimeContext::from_req, with config: CONFIG_FROM_ENV.clone().
SrvReceive(r) ==
  /\ rq[r].pc = "new"
  /\ config' = CONFIG_FROM_ENV(config, cenv)
  /\ rq' = [rq EXCEPT ![r].pc = "acquire", ![r].ctx = receive(SrvRequest),
                       ![r].config = config']
  /\ UNCHANGED <<srv_others, start_env, cenv, capacity, pool>>

\* Acquire: a buffer from the pool, or the terminal Other error.
SrvAcquire(r) ==
  /\ rq[r].pc = "acquire"
  /\ LET a == try_acquire(pool) IN
       IF is_some(a.buffer)
       THEN /\ rq' = [rq EXCEPT ![r].pc = "drain", ![r].buf = a.buffer]
            /\ pool' = a.pool
       ELSE SrvTerminal(r, Response_from(pool_exhausted), "exhausted")
  /\ UNCHANGED <<srv_others, start_env, cenv, config, capacity>>

\* Drain: the body is read into the buffer, or the terminal IO error.
SrvDrain(r) ==
  /\ rq[r].pc = "drain"
  /\ \E d \in SrvDrainResults :
       IF d.ok
       THEN /\ rq' = [rq EXCEPT ![r].pc = "decode", ![r].buf[1].data = d.v]
            /\ pool' = pool
       ELSE SrvTerminal(r, Response_from(d.e), "error")
  /\ UNCHANGED <<srv_others, start_env, cenv, config, capacity>>

\* Decode: the decoder of the content type runs over the buffer.
SrvDecode(r) ==
  /\ rq[r].pc = "decode"
  /\ \E d \in DecodeResults :
       LET m == match_decode(d) IN
       IF m.pc = "invoke"
       THEN /\ rq' = [rq EXCEPT ![r].pc = "invoke"]
            /\ pool' = pool
       ELSE SrvTerminal(r, m.resp[1], "error")
  /\ UNCHANGED <<srv_others, start_env, cenv, config, capacity>>

\* Invoke: the handler calls set_status_code on the context of its request.
SrvSetStatus(r) ==
  /\ rq[r].pc = "invoke"
  /\ \E status \in SrvStatusInputs :
       LET c == set_status_code(rq[r].ctx[1], status) IN
       rq' = [rq EXCEPT ![r].ctx = Some(c.ctx),
                        ![r].calls.status =
                          IF c.result.ok THEN Some(status) ELSE @]
  /\ UNCHANGED <<srv_others, start_env, cenv, config, capacity, pool>>

\* Invoke: the handler calls add_response_header on the context of its
\* request.
SrvAddHeader(r) ==
  /\ rq[r].pc = "invoke"
  /\ \E h \in SrvHeaders(r) :
       rq' = [rq EXCEPT
                ![r].ctx = Some(add_response_header(rq[r].ctx[1], h[1], h[2])),
                ![r].calls.headers[HeaderName_from_str(h[1])] = <<h[2]>>]
  /\ UNCHANGED <<srv_others, start_env, cenv, config, capacity, pool>>

\* Invoke: the handler returns.
SrvReturn(r) ==
  /\ rq[r].pc = "invoke"
  /\ \E res \in SrvHandlerResults :
       LET m == match_res(res) IN
       IF m.pc = "encode"
       THEN /\ rq' = [rq EXCEPT ![r].pc = "encode"]
            /\ pool' = pool
       ELSE SrvTerminal(r, m.resp[1], "error")
  /\ UNCHANGED <<srv_others, start_env, cenv, config, capacity>>

\* Encode and Emit: the encoder of the accept type, then the envelope.
SrvEncode(r) ==
  /\ rq[r].pc = "encode"
  /\ \E e \in EncodeResults :
       SrvTerminal(r, match_encode(rq[r].ctx[1], e).resp[1],
                   IF e.ok THEN "emit" ELSE "error")
  /\ UNCHANGED <<srv_others, start_env, cenv, config, capacity>>

\* The environment of the process is changed (std::env::set_var,
\* remove_var) between or during requests.
SrvSetEnv ==
  /\ \E e \in Environments \ {cenv} : cenv' = e
  /\ UNCHANGED <<srv_others, start_env, config, capacity, pool, rq>>

\* The steps of one request.
SrvStep(r) ==
  \/ SrvReceive(r)
  \/ SrvAcquire(r)
  \/ SrvDrain(r)
  \/ SrvDecode(r)
  \/ SrvSetStatus(r)
  \/ SrvAddHeader(r)
  \/ SrvReturn(r)
  \/ SrvEncode(r)

SrvNext ==
  \/ \E r \in Requests : SrvReceive(r)
  \/ \E r \in Requests : SrvAcquire(r)
  \/ \E r \in Requests : SrvDrain(r)
  \/ \E r \in Requests : SrvDecode(r)
  \/ \E r \in Requests : SrvSetStatus(r)
  \/ \E r \in Requests : SrvAddHeader(r)
  \/ \E r \in Requests : SrvReturn(r)
  \/ \E r \in Requests : SrvEncode(r)
  \/ SrvSetEnv

SrvSpec == SrvInit /\ [][SrvNext]_vars

\* ------------------------------------- context.rs, from_req on its own

\* The values a request can carry under Content-Type: the MIME strings
\* ContentType::from_str knows, one it does not know, and one that is not
\* text.
MimeInputs ==
  {"application/json", "text/yaml", "application/yaml", "application/xml",
   "text/xml", "text/plain", "application/x-www-form-urlencoded", "image/png"}
    \cup OpaqueValues

\* The header maps of the requests from_req is called with: per header,
\* absent (<<>>) or one value.
InboundHeaders ==
  {[n \in HeaderNames |->
      CASE n = "fn-intent" -> intent
        [] n = "content-type" -> ct
        [] n = "accept" -> accept
        [] n = "fn-http-h-accept" -> h_accept
        [] n = "fn-http-method" -> method
        [] n = "fn-http-request-url" -> url
        [] n = "fn-call-id" -> call_id
        [] n = "fn-http-h-custom" -> h_custom
        [] OTHER -> <<>>] :
     intent \in {<<>>, <<"httprequest">>, <<"cloudevent">>}
                  \cup {<<v>> : v \in OpaqueValues},
     ct \in {<<>>} \cup {<<v>> : v \in MimeInputs},
     accept \in {<<>>, <<"text/yaml">>, <<"text/plain">>},
     h_accept \in {<<>>, <<"application/xml">>},
     method \in {<<>>, <<"GET">>, <<"">>},
     url \in {<<>>, <<"/path">>},
     call_id \in {<<>>, <<"call-1">>},
     h_custom \in {<<>>, <<"v">>}}

CtxInit ==
  /\ PipelineIdle
  /\ BootIdle
  /\ ConcIdle
  /\ CodecIdle
  /\ BenchIdle
  /\ HttpIdle
  /\ DefaultIdle
  /\ inbound \in InboundHeaders
  /\ made = None

\* RuntimeContext::from_req(&req): a context, or a panic.
FromReq ==
  /\ made = None
  /\ LET req == [headers |-> inbound] IN
       made' = Some(IF from_req_panics(req)
                    THEN [to |-> "panicked"]
                    ELSE [to |-> "returned", ctx |-> RuntimeContext_from_req(req)])
  /\ UNCHANGED <<pipeline_vars, boot_vars, conc_vars, codec_vars, bench_vars,
                 http_vars, default_vars, inbound>>

CtxNext == FromReq

CtxSpec == CtxInit /\ [][CtxNext]_vars

\* ------------------------- coercions.rs and errors.rs, the conversions

\* The chars the Strings are made of: A, e with acute accent (a char of one
\* byte in Latin-1, of two in UTF-8) and the euro sign (code point 8364).
Chars == {65, 233, 8364}

Texts == UNION {[1..n -> Chars] : n \in 0..MaxTextLen}

Values == {StringValue(t) : t \in Texts} \cup {StructValue(t) : t \in Texts}

\* Request bodies that are not the encoding of a value: a byte that is not
\* UTF-8, and an opening brace alone.
RawInputs == {<<255>>, <<123>>}

\* The errors of other libraries that the FDK meets.
ExternalCauses ==
  {[from |-> "std::env::VarError", text |-> "environment variable not found"],
   [from |-> "std::io::Error", text |-> "unexpected end of file"],
   [from |-> "hyper::Error", text |-> "connection closed"],
   [from |-> "url::ParseError", text |-> "relative URL without a base"]}

\* impl From<VarError>, From<hyper::Error>, From<std::io::Error> for
\* FunctionError
From_VarError(e) == FunctionError("InitializationError", e.text)
From_hyper_Error(e) == FunctionError("OtherError", "hyper error: " \o e.text)
From_io_Error(e) == FunctionError("IOError", e.text)

\* What the code makes of an external error: the From impl of its type; for
\* the URL parse error of FN_LISTENER, which has none, UDS::new's
\* unwrap_or_else(|_| panic!(..)).
lift(external) ==
  CASE external.from = "std::env::VarError" ->
         [to |-> "returned", e |-> From_VarError(external)]
    [] external.from = "hyper::Error" ->
         [to |-> "returned", e |-> From_hyper_Error(external)]
    [] external.from = "std::io::Error" ->
         [to |-> "returned", e |-> From_io_Error(external)]
    [] external.from = "url::ParseError" ->
         [to |-> "panicked", e |-> FunctionError("none", external.text)]

CodecInit ==
  /\ PipelineIdle
  /\ BootIdle
  /\ ConcIdle
  /\ CtxIdle
  /\ BenchIdle
  /\ HttpIdle
  /\ DefaultIdle
  /\ cformat \in ContentType
  /\ cvalue \in Values
  /\ cstage = "value"
  /\ cbytes = None
  /\ cback = None
  /\ ecause \in ExternalCauses
  /\ elifted = None

codec_others == <<pipeline_vars, boot_vars, conc_vars, ctx_vars, bench_vars,
    http_vars, default_vars>>

\* U::try_encode of the format: the value is encoded.
EncodeValue ==
  /\ cstage = "value"
  /\ cbytes' = Some(encode(cformat, cvalue))
  /\ cstage' = "encoded"
  /\ UNCHANGED <<codec_others, cformat, cvalue, cback, ecause, elifted>>

\* T::try_decode of the same format, T the type of the value, over the bytes
\* the encoder gave.
DecodeEncoded ==
  /\ cstage = "encoded"
  /\ cbytes[1].ok
  /\ cback' = Some(decode(cformat, cvalue.shape, cbytes[1].v))
  /\ cstage' = "decoded"
  /\ UNCHANGED <<codec_others, cformat, cvalue, cbytes, ecause, elifted>>

\* T::try_decode over a request body that came from elsewhere.
DecodeInput ==
  /\ cstage = "value"
  /\ \E raw \in RawInputs :
       /\ cbytes' = Some(Ok(raw))
       /\ cback' = Some(decode(cformat, cvalue.shape, raw))
  /\ cstage' = "input"
  /\ UNCHANGED <<codec_others, cformat, cvalue, ecause, elifted>>

\* An external error is turned into a FunctionError (e.into(), `?`).
Lift ==
  /\ elifted = None
  /\ elifted' = Some(lift(ecause))
  /\ UNCHANGED <<codec_others, cformat, cvalue, cstage, cbytes, cback, ecause>>

CodecNext ==
  \/ EncodeValue
  \/ DecodeEncoded
  \/ DecodeInput
  \/ Lift

CodecSpec == CodecInit /\ [][CodecNext]_vars

\* ------------------------------------- function.rs, FunctionTestbench

\* Faulty variant: the list keeps what it holds.
Vec_clear_keep(v) == v

\* Vec::clear
Vec_clear(v) == <<>>

\* What run_impl can make of one request: the response of a success, of a
\* user error and of a server error, written to the output or not.
BenchItemResults ==
  {[resp |-> r, ok |-> r.headers["fn-http-status"] = <<"200">>, written |-> w] :
     r \in {emit(RuntimeContext_from_req([headers |-> HeaderMap_new]), "output"),
            Response_from(FunctionError("InvalidInput", "bad input")),
            Response_from(FunctionError("IOError", "read failed"))},
     w \in BOOLEAN}

\* The while loop of run_impl over the items from the i-th on: the responses
\* sent to the hook, the items taken and the exit code.
RECURSIVE run_loop(_, _, _)
run_loop(items, i, acc) ==
  IF i > Len(items) THEN acc
  ELSE LET code == IF items[i].written
                   THEN exit_code_from_response(items[i].resp) ELSE 2
           next == [sent        |-> Append(acc.sent, [item |-> i,
                                                      resp |-> items[i].resp]),
                    out         |-> IF items[i].written
                                    THEN Append(acc.out, i) ELSE acc.out,
                    err         |-> IF items[i].written
                                    THEN acc.err ELSE acc.err + 1,
                    taken       |-> i,
                    last_status |-> code]
       IN IF code > 1 THEN next ELSE run_loop(items, i + 1, next)

\* run_impl with a responses hook: the initializer's Err arm sends one
\* response, writes it (or logs that it could not) and returns 2; otherwise
\* the loop runs.
run_impl(init, init_written, items) ==
  IF init.ok
  THEN run_loop(items, 1, [sent |-> <<>>, out |-> <<>>, err |-> 0,
                           taken |-> 0, last_status |-> 0])
  ELSE [sent        |-> <<[item |-> 0, resp |-> Response_from(init.e)]>>,
        out         |-> IF init_written THEN <<0>> ELSE <<>>,
        err         |-> IF init_written THEN 0 ELSE 1,
        taken       |-> 0,
        last_status |-> 2]

\* What the initializer of the function under test can return.
BenchInitResults ==
  {Ok("state"), Err(FunctionError("InitializationError", "init failed"))}

\* FunctionTestbench::new
BenchInit ==
  /\ PipelineIdle
  /\ BootIdle
  /\ ConcIdle
  /\ CtxIdle
  /\ CodecIdle
  /\ HttpIdle
  /\ DefaultIdle
  /\ tb_requests = <<>>
  /\ tb_responses = <<>>
  /\ test_out = <<>>
  /\ test_err = 0
  /\ tb_runs = 0
  /\ tb_exit = None
  /\ tb_last = None

bench_others == <<pipeline_vars, boot_vars, conc_vars, ctx_vars, codec_vars,
    http_vars, default_vars>>

\* enqueue / enqueue_simple: self.requests.push(req). A request is named by
\* the run that will take it and its place in the queue.
Enqueue ==
  /\ tb_runs < MaxRuns
  /\ Len(tb_requests) < MaxRequests
  /\ tb_requests' = Append(tb_requests,
                           [run |-> tb_runs + 1, n |-> Len(tb_requests) + 1])
  /\ tb_last' = None
  /\ UNCHANGED <<bench_others, tb_responses, test_out, test_err, tb_runs,
                 tb_exit>>

\* FunctionTestbench::run: responses.clear(); the requests are drained into
\* the input; run_impl; the responses the hook received are pushed.
TestbenchRun ==
  /\ tb_runs < MaxRuns
  /\ \E init \in BenchInitResults, init_written \in BOOLEAN :
     \E items \in [1..Len(tb_requests) -> BenchItemResults] :
       LET r == run_impl(init, init_written, items)
           request(k) == IF k = 0 THEN [run |-> tb_runs + 1, n |-> 0]
                         ELSE tb_requests[k]
       IN /\ tb_responses' =
               Vec_clear(tb_responses)
                 \o [k \in 1..Len(r.sent) |->
                       [req  |-> request(r.sent[k].item),
                        resp |-> r.sent[k].resp]]
          /\ test_out' = r.out
          /\ test_err' = r.err
          /\ tb_exit' = Some(r.last_status)
          /\ tb_last' = Some([drained     |-> tb_requests,
                              initialized |-> init.ok,
                              processed   |-> r.taken,
                              all_ok      |-> /\ init.ok
                                              /\ \A k \in 1..Len(items) :
                                                   items[k].ok /\ items[k].written])
  /\ tb_requests' = <<>>
  /\ tb_runs' = tb_runs + 1
  /\ UNCHANGED bench_others

\* drain_responses: self.responses.drain(..).collect()
DrainResponses ==
  /\ tb_responses # <<>>
  /\ tb_responses' = <<>>
  /\ tb_last' = None
  /\ UNCHANGED <<bench_others, tb_requests, test_out, test_err, tb_runs,
                 tb_exit>>

BenchNext ==
  \/ Enqueue
  \/ TestbenchRun
  \/ DrainResponses

BenchSpec == BenchInit /\ [][BenchNext]_vars

\* ------------------------------------------------- codecs.rs, HttpCodec

\* The values of the two random UUIDs of a codec; a request of the input
\* can carry the key with another value.
ShutdownValue == "shutdown_value_uuid"
OtherValue == "another value"

\* The i-th request of the input, and the request the push thread writes
\* after the input: HEAD * with the shutdown header.
UserRequest(i, raw) == [id |-> i, method |-> "POST", shutdown_key |-> raw]
ShutdownRequest == [id |-> 0, method |-> "HEAD", shutdown_key |-> Some(ShutdownValue)]

\* What the bytes of the input make: a request, with or without a header
\* under the shutdown key, or a failed read.
StdinItems == {"request", "keyed request", "read error"}
Stdin == UNION {[1..n -> StdinItems] : n \in 0..MaxRequests}

\* Faulty variant: the shutdown request is posted as any other request.
ChannelPoster_call_post(req) == Some(Ok(req))

\* ChannelPoster::call: the message sent on the event channel.
ChannelPoster_call(req) ==
  LET is_shutdown == /\ is_some(req.shutdown_key)
                     /\ req.shutdown_key[1] = ShutdownValue
  IN IF is_shutdown THEN None ELSE Some(Ok(req))

\* HttpCodec::new with the streams set up: the channel is empty and the
\* three threads are started.
HttpInit ==
  /\ PipelineIdle
  /\ BootIdle
  /\ ConcIdle
  /\ CtxIdle
  /\ CodecIdle
  /\ BenchIdle
  /\ DefaultIdle
  /\ stdin_all \in Stdin
  /\ stdin = stdin_all
  /\ push_pc = "input"
  /\ to_server = <<>>
  /\ server_pc = "read"
  /\ from_server = 0
  /\ event_rx = <<>>
  /\ yielded = <<>>
  /\ codec_pc = "loop"

http_others ==
  <<pipeline_vars, boot_vars, conc_vars, ctx_vars, codec_vars, bench_vars,
    default_vars>>

\* Push thread, bufinput.bytes().fold: the bytes of a request are written to
\* the stream, which blocks while the stream is full; a failed read is sent
\* on the event channel.
PushInput ==
  /\ push_pc = "input"
  /\ stdin # <<>>
  /\ LET i == Len(stdin_all) - Len(stdin) + 1 IN
     IF Head(stdin) = "read error"
     THEN /\ event_rx' = Append(event_rx, Some(Err(FunctionError("IOError", "read failed"))))
          /\ UNCHANGED to_server
     ELSE /\ Len(to_server) < MaxBuffered
          /\ to_server' =
               Append(to_server,
                      UserRequest(i, IF Head(stdin) = "keyed request"
                                     THEN Some(OtherValue) ELSE None))
          /\ UNCHANGED event_rx
  /\ stdin' = Tail(stdin)
  /\ UNCHANGED <<http_others, stdin_all, push_pc, server_pc,
                 from_server, yielded, codec_pc>>

\* Push thread, after the input: the shutdown request is written.
PushShutdown ==
  /\ push_pc = "input"
  /\ stdin = <<>>
  /\ Len(to_server) < MaxBuffered
  /\ to_server' = Append(to_server, ShutdownRequest)
  /\ push_pc' = "done"
  /\ UNCHANGED <<http_others, stdin_all, stdin, server_pc,
                 from_server, event_rx, yielded, codec_pc>>

\* Server thread: the next request of the stream is parsed and the service
\* is called with it.
ServerCall ==
  /\ server_pc = "read"
  /\ to_server # <<>>
  /\ event_rx' = Append(event_rx, ChannelPoster_call(Head(to_server)))
  /\ to_server' = Tail(to_server)
  /\ server_pc' = "write"
  /\ UNCHANGED <<http_others, stdin_all, stdin, push_pc,
                 from_server, yielded, codec_pc>>

\* Server thread: the response "OK" of the service is written to the stream,
\* which blocks while the stream is full.
ServerRespond ==
  /\ server_pc = "write"
  /\ from_server < MaxBuffered
  /\ from_server' = from_server + 1
  /\ server_pc' = "read"
  /\ UNCHANGED <<http_others, stdin_all, stdin, push_pc,
                 to_server, event_rx, yielded, codec_pc>>

\* Pull thread: stream_for_pull.bytes().count() consumes a response.
PullConsume ==
  /\ from_server > 0
  /\ from_server' = from_server - 1
  /\ UNCHANGED <<http_others, stdin_all, stdin, push_pc,
                 to_server, server_pc, event_rx, yielded, codec_pc>>

\* impl Iterator for HttpCodec: next returns the message recv gives, which
\* blocks while the channel is empty; while let Some(..) ends on None.
HttpCodecNext ==
  /\ codec_pc = "loop"
  /\ event_rx # <<>>
  /\ LET maybe_ie == Head(event_rx) IN
     IF is_some(maybe_ie)
     THEN /\ yielded' = Append(yielded, maybe_ie[1])
          /\ UNCHANGED codec_pc
     ELSE /\ codec_pc' = "ended"
          /\ UNCHANGED yielded
  /\ event_rx' = Tail(event_rx)
  /\ UNCHANGED <<http_others, stdin_all, stdin, push_pc,
                 to_server, server_pc, from_server>>

PushThread == PushInput \/ PushShutdown
ServerThread == ServerCall \/ ServerRespond

HttpNext ==
  \/ PushInput
  \/ PushShutdown
  \/ ServerCall
  \/ ServerRespond
  \/ PullConsume
  \/ HttpCodecNext

\* Every thread that can take a step is scheduled in the end.
HttpSpec ==
  /\ HttpInit
  /\ [][HttpNext]_vars
  /\ WF_vars(PushThread)
  /\ WF_vars(ServerThread)
  /\ WF_vars(PullConsume)
  /\ WF_vars(HttpCodecNext)

\* ---------------------------------------------- codecs.rs, DefaultCodec

\* The environments a DefaultCodec is created with: FN_METHOD and
\* FN_REQUEST_URL unset, valid or not valid, and FN_HEADER_ACCEPT set or not.
DefaultEnvironments ==
  [method : {None, Some("GET"), Some("")},
   url    : {None, Some("/path"), Some("")},
   header : {None, Some("text/yaml")}]

\* Faulty variant: self.read is set only when a request is returned.
DefaultCodec_next_retry(read, env, io_ok) ==
  LET e == IF ~io_ok THEN Some(FunctionError("IOError", "read failed"))
           ELSE IF env.method = None
           THEN Some(FunctionError("OtherError", "Fatal: FN_METHOD not set."))
           ELSE IF env.url = None
           THEN Some(FunctionError("OtherError", "Fatal: FN_REQUEST_URL not set."))
           ELSE None
  IN IF read THEN [read |-> TRUE, item |-> None]
     ELSE IF is_some(e) THEN [read |-> FALSE, item |-> Some(Err(e[1]))]
     ELSE [read |-> TRUE,
           item |-> Some(Ok([method  |-> env.method[1],
                             uri     |-> env.url[1],
                             headers |-> HeaderMap_new]))]

\* impl Iterator for DefaultCodec, next: self.read and the value returned.
\* io_ok is the outcome of read_to_end.
DefaultCodec_next(read, env, io_ok) ==
  IF read THEN [read |-> TRUE, item |-> None]
  ELSE [read |-> TRUE,
        item |->
          IF ~io_ok THEN Some(Err(FunctionError("IOError", "read failed")))
          ELSE IF env.method = None
          THEN Some(Err(FunctionError("OtherError", "Fatal: FN_METHOD not set.")))
          ELSE IF ~Method_try_from(env.method[1]).ok
          THEN Some(Err(FunctionError(
                 "OtherError", "Fatal: FN_METHOD set to an invalid HTTP method.")))
          ELSE IF env.url = None
          THEN Some(Err(FunctionError("OtherError",
                                      "Fatal: FN_REQUEST_URL not set.")))
          ELSE IF ~Uri_try_from(env.url[1]).ok
          THEN Some(Err(FunctionError(
                 "OtherError", "Fatal: FN_REQUEST_URL set to an invalid URL.")))
          ELSE Some(Ok([method  |-> Method_try_from(env.method[1]).v,
                        uri     |-> Uri_try_from(env.url[1]).v,
                        headers |-> IF is_some(env.header)
                                    THEN HeaderMap_insert(HeaderMap_new, "accept",
                                                          env.header[1])
                                    ELSE HeaderMap_new]))]

\* What the loop makes of an item: the conversion of the codec's error, or
\* for a request the response of a success, a user error or a server error.
DefaultResponses(item) ==
  IF item.ok
  THEN {emit(RuntimeContext_from_req([headers |-> item.v.headers]), "output"),
        Response_from(FunctionError("InvalidInput", "bad input")),
        Response_from(FunctionError("IOError", "failed"))}
  ELSE {Response_from(item.e)}

\* DefaultCodec::new, and run_impl at the head of its loop.
DefaultInit ==
  /\ PipelineIdle
  /\ BootIdle
  /\ ConcIdle
  /\ CtxIdle
  /\ CodecIdle
  /\ BenchIdle
  /\ HttpIdle
  /\ dc_env \in DefaultEnvironments
  /\ dc_read = FALSE
  /\ dc_items = <<>>
  /\ dc_out = <<>>
  /\ dc_pc = "next"
  /\ dc_resp = None

default_others ==
  <<pipeline_vars, boot_vars, conc_vars, ctx_vars, codec_vars, bench_vars,
    http_vars>>

\* while let Some(maybe_evt) = codec.next()
DefaultNext ==
  /\ dc_pc = "next"
  /\ \E io_ok \in BOOLEAN :
       LET r == DefaultCodec_next(dc_read, dc_env, io_ok) IN
       /\ dc_read' = r.read
       /\ dc_items' = Append(dc_items, r.item)
       /\ dc_resp' = r.item
       /\ dc_pc' = IF is_some(r.item) THEN "respond" ELSE "done"
  /\ UNCHANGED <<default_others, dc_env, dc_out>>

\* The body of the loop: the response of the item is handed to try_write,
\* which writes its body (write_response_body); a code above 1 ends the loop.
DefaultRespond ==
  /\ dc_pc = "respond"
  /\ \E response \in DefaultResponses(dc_resp[1]), written \in BOOLEAN :
       LET code == IF written THEN exit_code_from_response(response) ELSE 2 IN
       /\ dc_out' = IF written THEN Append(dc_out, response.body) ELSE dc_out
       /\ dc_pc' = IF code > 1 THEN "done" ELSE "next"
  /\ dc_resp' = None
  /\ UNCHANGED <<default_others, dc_env, dc_read, dc_items>>

\* A call of next once the loop is over.
DefaultNextAfterEnd ==
  /\ dc_pc = "done"
  /\ Len(dc_items) <= MaxRequests
  /\ \E io_ok \in BOOLEAN :
       LET r == DefaultCodec_next(dc_read, dc_env, io_ok) IN
       /\ dc_read' = r.read
       /\ dc_items' = Append(dc_items, r.item)
  /\ UNCHANGED <<default_others, dc_env, dc_out, dc_pc, dc_resp>>

DefaultNextStep ==
  \/ DefaultNext
  \/ DefaultRespond
  \/ DefaultNextAfterEnd

DefaultSpec == DefaultInit /\ [][DefaultNextStep]_vars

\* ---------------------------------------------------------------- claims

\* A response has been built and is about to be handed to the writer.
Emitting == pc \in {"respond", "init_failed"}

\* Number of entries of a log that answer item r.
Count(log, r) == Cardinality({i \in DOMAIN log : log[i].req = r})

\* The items whose pass through the loop body is over.
Completed == {r \in 1..taken : r < taken \/ pc \in {"next", "done"}}

\* C1: every item taken from the input, whatever the outcome of its stages
\* (read failure, decode failure, handler Err, encode failure, success), gets
\* exactly one response: one response is built and handed to the writer, the
\* writer writes it once, and nothing is written for an item still in flight.
\* Only a failure of the writer itself, which is logged and ends the loop,
\* keeps the response out of the output.
C1_ExactlyOneResponse ==
  /\ \A r \in Completed :
       /\ Count(responses, r) = 1
       /\ Count(output, r) <= 1
       /\ error_log = 0 => Count(output, r) = 1
  /\ \A r \in (1..taken) \ Completed :
       Count(responses, r) = 0 /\ Count(output, r) = 0
  /\ \A i \in DOMAIN responses :
       responses[i].req = 0 => responses[i].stage = "Initialize"

\* C1 witness: two items were taken, the first ended in an error response
\* and the second in a success response, and both were written.
C1_Witness ==
  /\ taken = 2
  /\ Len(output) = 2
  /\ output[1].kind = "CoercionError"
  /\ output[2].kind = "none"

\* The Fn-Http-Status values of the response about to be written.
Logical == resp[1].headers["fn-http-status"]

\* C2: recoverability law. The outer status of every response is 200 or
\* 502, and it is 502 exactly when the logical status is 500 and the
\* response was built from an error that is not a user error.
C2_Recoverability ==
  Emitting =>
    /\ resp[1].status \in {200, 502}
    /\ resp[1].status = 502 <=>
         /\ Logical = <<"500">>
         /\ cause.kind # "none"
         /\ ~is_user_error(cause.kind)

\* C2 witness: the handler set the status 500 and returned Ok; the logical
\* status is 500 and yet the outer status is 200.
C2_Witness ==
  /\ pc = "respond"
  /\ cause.kind = "none"
  /\ Logical = <<"500">>
  /\ resp[1].status = 200

\* C3 (as claimed): an error of a user-error kind becomes a response with
\* outer status 200 and Fn-Http-Status 400.
C3_UserErrorIs400 ==
  (Emitting /\ cause.kind # "none" /\ is_user_error(cause.kind)) =>
    /\ resp[1].status = 200
    /\ Logical = <<"400">>

DecimalsInRange == {ToDecimal(n) : n \in 100..599}

\* C5 (as claimed): every response carries exactly one Fn-Http-Status
\* header and its value is a decimal number in 100..599.
C5_EnvelopeLaw ==
  Emitting =>
    /\ Len(Logical) = 1
    /\ Logical[1] \in DecimalsInRange

\* The decimal texts of the 4xx statuses.
Decimals4xx == {ToDecimal(n) : n \in 400..499}

\* C6 (as claimed): whatever error kind the handler returns, the response
\* is recoverable: outer status 200 with a 4xx logical status, never 502.
C6_HandlerErrRecoverable ==
  (pc = "respond" /\ cause.stage = "Invoke" /\ cause.kind # "none") =>
    /\ resp[1].status = 200
    /\ Len(Logical) = 1
    /\ Logical[1] \in Decimals4xx

\* The order of the stages of one pass through the loop body: codec.next()
\* (Receive, with the read of the body), decode, the handler, encode. The
\* response is emitted from pc = "respond".
StageOrder == <<"Receive", "Decode", "Invoke", "Encode">>

\* The texts of the errors a stage can fail with.
Failures(results) == {x.e.error : x \in {y \in results : ~y.ok}}
ErrorTexts ==
  Failures(InputItems) \cup Failures(DecodeResults)
    \cup Failures(HandlerResults) \cup Failures(EncodeResults)

HandlerReturnedOk ==
  Len(trace) >= 3 /\ trace[3].stage = "Invoke" /\ trace[3].ok

\* The logical status the claim prescribes for a handler that returned Ok.
HandlerStatus == <<ToDecimal(unwrap_or(set_ok, 200))>>

\* C8 (as claimed): when the handler returns Ok, the logical status is the
\* last status it successfully set, or 200, and the outer status is 200.
C8_HandlerOkStatus ==
  (pc = "respond" /\ HandlerReturnedOk) =>
    /\ resp[1].status = 200
    /\ Logical = HandlerStatus

\* C8 (amended): when the handler returns Ok and its value is encoded, the
\* logical status is the last status the handler successfully set, or 200 if
\* it set none, and the outer status is 200.
C8_HandlerOkEncodedStatus ==
  (pc = "respond" /\ HandlerReturnedOk /\ cause.kind = "none") =>
    /\ resp[1].status = 200
    /\ Logical = HandlerStatus

\* C8 witness: the handler set 500, then 404, and returned Ok; the value was
\* encoded and the response carries Fn-Http-Status 404 under outer 200.
C8_Witness ==
  /\ pc = "respond"
  /\ HandlerReturnedOk
  /\ cause.kind = "none"
  /\ ops = 2
  /\ set_ok = <<404>>
  /\ Logical = <<"404">>
  /\ resp[1].status = 200

\* C9: when the handler set a status and then returns Err, the outer and
\* logical status of the response are those of the error's class (user
\* error or not); the status the handler set plays no part.
C9_ErrClassificationWins ==
  (pc = "respond" /\ cause.stage = "Invoke" /\ cause.kind # "none"
     /\ is_some(set_ok)) =>
    IF is_user_error(cause.kind)
    THEN resp[1].status = OK /\ Logical = <<ToDecimal(BAD_GATEWAY)>>
    ELSE resp[1].status = BAD_GATEWAY
           /\ Logical = <<ToDecimal(INTERNAL_SERVER_ERROR)>>

\* C9 witness: the handler set 404 and returned an Other error; the
\* response has outer status 502.
C9_Witness ==
  /\ pc = "respond"
  /\ cause.stage = "Invoke"
  /\ cause.kind = "OtherError"
  /\ set_ok = <<404>>
  /\ resp[1].status = 502

\* C10 (as claimed): set_status_code(s) succeeds exactly when
\* 100 <= s <= 599.
C10_SetStatusRange ==
  is_some(last_set) =>
    (last_set[1].ok <=> (100 <= last_set[1].status /\ last_set[1].status <= 599))

\* The FDK sentinel headers.
SentinelHeaders == {"fn-fdk-version", "fn-fdk-runtime", "fn-http-status"}

\* The logical status the envelope builder is given for the response in
\* flight: the handler-set status or 200 on success, the status of the
\* error's class otherwise.
EnvelopeStatus ==
  IF cause.kind = "none" THEN unwrap_or(set_ok, OK)
  ELSE IF is_user_error(cause.kind) THEN BAD_GATEWAY
  ELSE INTERNAL_SERVER_ERROR

\* C11: the sentinel headers always win. In every response Fn-Fdk-Version,
\* Fn-Fdk-Runtime and Fn-Http-Status each hold the one value the envelope
\* builder wrote, whatever headers of these names the handler added.
C11_SentinelsWin ==
  Emitting =>
    /\ resp[1].headers["fn-fdk-version"] = <<FdkVersion>>
    /\ resp[1].headers["fn-fdk-runtime"] = <<FdkRuntime>>
    /\ resp[1].headers["fn-http-status"] = <<ToDecimal(EnvelopeStatus)>>

\* C11 witness: the handler added Fn-Fdk-Version and Fn-Http-Status itself
\* and returned Ok; the response carries the builder's values.
C11_Witness ==
  /\ pc = "respond"
  /\ cause.kind = "none"
  /\ added["fn-fdk-version"] = <<"a">>
  /\ added["fn-http-status"] = <<"a">>
  /\ resp[1].headers["fn-fdk-version"] = <<FdkVersion>>
  /\ resp[1].headers["fn-http-status"] = <<"200">>

BootChecked == bpc \in {"running", "returned"} /\ fs_log # <<>>

\* The cleanup step (the two removals) is over.
CleanupDone == BootChecked /\ Len(fs_log) >= 2

\* Something lies at the advertised target path.
TargetExists == fs[Target].kind # "absent"

\* The phony socket is bound by a listener and has mode 0o666.
PhonyReady ==
  /\ fs[Phony].kind = "socket"
  /\ fs[Phony].bound
  /\ fs[Phony].mode = 438

\* The symlink call, once made, is the last file-system call.
SymlinkIsLast ==
  \A i \in DOMAIN fs_log : fs_log[i].call = "symlink" => i = Len(fs_log)

TargetCleaned ==
  /\ CleanupDone
  /\ fs_log[1].call = "remove_target"
  /\ fs_log[1].ok \/ fs_log[1].e = "No such file or directory"

C14_BootstrapResult ==
  (bpc = "returned" /\ bresult[1].ok) =>
    LET listener == bresult[1].v
        basename == Target[Len(Target)]
        dirname  == SubSeq(Target, 1, Len(Target) - 1)
    IN /\ fs[Target].kind = "symlink"
       /\ fs[Target].link = "phony" \o basename
       /\ listener = Append(dirname, "phony" \o basename)
       /\ fs[listener].kind = "socket"
       /\ fs[listener].bound
       /\ fs[listener].mode = 438

\* C14 witness: FN_LISTENER = unix:///iofs/lsnr.sock; the bootstrap returned
\* a listener and /iofs/lsnr.sock is a link to phonylsnr.sock.
C14_Witness ==
  /\ bpc = "returned"
  /\ bresult[1].ok
  /\ benv.listener = Some(<<"unix", ":", "/", "/", "/", "iofs", "/", "lsnr.sock">>)
  /\ fs[<<"iofs", "lsnr.sock">>].link = "phonylsnr.sock"
  /\ fs[<<"iofs", "phonylsnr.sock">>].bound

\* FN_FORMAT is set to something other than "" and "http-stream".
UnsupportedFormat ==
  is_some(benv.format) /\ benv.format[1] \notin {"", "http-stream"}

\* The errors that name an unsupported format.
UnsupportedFormatErrors ==
  {FunctionError("InitializationError",
                 "Unsupported FN_FORMAT specified: " \o f[1]) :
     f \in FormatValues \ {None}}

InvalidListeners ==
  {None, Some(<<>>), Some(<<"lsnr.sock">>),
   Some(<<"tcp", ":", "/", "/", "host", "/", "lsnr.sock">>),
   Some(<<"unix", ":">>)}

\* C16 (as claimed): for every invalid FN_LISTENER the bootstrap does not
\* panic, makes no file-system call, and returns an Initialization error.
C16_InvalidListenerIsError ==
  benv.listener \in InvalidListeners =>
    /\ bpc # "panicked"
    /\ fs_log = <<>>
    /\ bpc # "start" =>
         /\ bpc = "returned"
         /\ ~bresult[1].ok
         /\ bresult[1].e.kind = "InitializationError"

\* The requests that hold a buffer.
Borrowers == {r \in Requests : is_some(rq[r].buf)}

\* C17, in every state: a request at the Acquire stage can take its step,
\* whatever the pool holds; no request that is not finished is stuck; and a
\* request that met the exhausted pool is finished, holds no buffer and has
\* the response of an Other error, outer 502 and logical 500.
C17_AcquireState ==
  \A r \in Requests :
    /\ rq[r].pc = "acquire" => ENABLED SrvAcquire(r)
    /\ rq[r].pc # "done" => ENABLED SrvStep(r)
    /\ rq[r].end = "exhausted" =>
         /\ rq[r].pc = "done"
         /\ rq[r].buf = None
         /\ rq[r].resp[1].status = 502
         /\ rq[r].resp[1].headers["fn-http-status"] = <<"500">>
         /\ rq[r].resp[1].body = "buffer pool exhausted"

\* C17, in every step: a request that leaves the Acquire stage while all
\* buffers are borrowed ends in that very step with the exhaustion error;
\* otherwise it goes on to Drain with a buffer.
C17_AcquireStep ==
  \A r \in Requests :
    (rq[r].pc = "acquire" /\ rq'[r].pc # "acquire") =>
      IF Cardinality(Borrowers) = capacity
      THEN rq'[r].pc = "done" /\ rq'[r].end = "exhausted"
      ELSE rq'[r].pc = "drain" /\ is_some(rq'[r].buf)

\* C17: buffer acquisition never blocks. With all buffers borrowed a request
\* that reaches Acquire ends at once with an Other error (outer 502, logical
\* 500) and never waits, and no interleaving of requests comes to a state
\* where an unfinished request cannot move.
C17_AcquireNeverBlocks == []C17_AcquireState /\ [][C17_AcquireStep]_vars

\* C17 witness: the one buffer of the pool is borrowed by request 1, which
\* is at its handler, and request 2 has ended with the exhaustion error.
C17_Witness ==
  /\ capacity = 1
  /\ rq[1].pc = "invoke"
  /\ rq[2].pc = "done"
  /\ rq[2].end = "exhausted"
  /\ rq[2].resp[1].status = 502

\* C18: the pool does not leak. Borrowed and free buffers add up to the
\* capacity, every buffer is either free or held by exactly one request, a
\* finished request (success or error) holds none, the free buffers are
\* empty and so is a buffer just handed out by acquire.
C18_PoolDoesNotLeak ==
  /\ Cardinality(Borrowers) + Len(pool) = capacity
  /\ \A i \in 1..capacity :
       Cardinality({k \in DOMAIN pool : pool[k].id = i})
         + Cardinality({r \in Borrowers : rq[r].buf[1].id = i}) = 1
  /\ \A r \in Requests :
       /\ rq[r].pc = "done" => rq[r].buf = None
       /\ rq[r].pc = "drain" => rq[r].buf[1].data = ""
       /\ rq[r].pc \in {"drain", "decode", "invoke", "encode"} <=>
            is_some(rq[r].buf)
  /\ \A k \in DOMAIN pool : pool[k].data = ""

\* C18 witness: request 1 has ended with a success response and the one
\* buffer of the pool, which it had filled, is now held, empty, by request 2.
C18_Witness ==
  /\ capacity = 1
  /\ rq[1].pc = "done"
  /\ rq[1].end = "emit"
  /\ rq[2].pc = "drain"
  /\ rq[2].buf[1].data = ""

\* The headers of a response other than those the envelope and Emit write.
HandlerHeaderSlots ==
  HeaderNames \ (SentinelHeaders \cup {"content-type", "content-length"})

\* C19: contexts are not shared. The context of a request holds exactly the
\* headers and the status its own handler set; the success response of a
\* request carries exactly these, and no response carries a header value or
\* status that only another request's handler set.
C19_ContextsNotShared ==
  \A r \in Requests :
    /\ is_some(rq[r].ctx) =>
         /\ rq[r].ctx[1].response_headers = rq[r].calls.headers
         /\ rq[r].ctx[1].response_status_code = rq[r].calls.status
    /\ rq[r].end = "emit" =>
         /\ \A n \in HandlerHeaderSlots :
              rq[r].resp[1].headers[n] = rq[r].calls.headers[n]
         /\ rq[r].resp[1].headers["fn-http-status"] =
              <<ToDecimal(unwrap_or(rq[r].calls.status, 200))>>
    /\ is_some(rq[r].resp) =>
         \A n \in HandlerHeaderSlots :
           rq[r].resp[1].headers[n] \in {<<>>, rq[r].calls.headers[n]}

\* C19 witness: requests 1 and 2 were at their handlers together; request 1
\* has its response, with X-Custom: 1 and the default status, while request
\* 2, whose handler set X-Custom: 2 and the status 404, is still at it.
C19_Witness ==
  /\ rq[1].end = "emit"
  /\ rq[1].resp[1].headers["x-custom"] = <<"1">>
  /\ rq[1].resp[1].headers["fn-http-status"] = <<"200">>
  /\ rq[2].pc = "invoke"
  /\ rq[2].calls.headers["x-custom"] = <<"2">>
  /\ rq[2].calls.status = <<404>>

\* C20: config freeze. Any two requests of the process observe the same
\* config map, however the environment changes between or during them.
C20_ConfigFreeze ==
  \A r1, r2 \in Requests :
    (is_some(rq[r1].config) /\ is_some(rq[r2].config)) =>
      rq[r1].config = rq[r2].config

\* C20 witness: request 1 is finished, request 2 has just been received, and
\* the environment now differs from the config map both observed.
C20_Witness ==
  /\ rq[1].pc = "done"
  /\ rq[2].pc = "acquire"
  /\ is_some(rq[1].config)
  /\ rq[2].config = rq[1].config
  /\ config_from(cenv) # rq[2].config[1]

\* C21: the config map every request observes is the environment of the
\* process as it was at process start, restricted to the variables with a
\* non-empty value, also when the environment is changed after process start
\* and before the first request is processed.
C21_ConfigIsStartEnvironment ==
  \A r \in Requests :
    is_some(rq[r].config) => rq[r].config[1] = config_from(start_env)

\* from_req returned a context; Made is that context.
Returned == is_some(made) /\ made[1].to = "returned"
Made == made[1].ctx

\* The request carries Fn-Intent: httprequest.
HttpRequestIntent == inbound["fn-intent"] = <<"httprequest">>

\* The header names that start with Fn-Http-H- (names are case-insensitive).
ProxiedNames == {"fn-http-h-accept", "fn-http-h-custom"}

\* C22: intent filter. With Fn-Intent: httprequest every header of the
\* context's request headers is Content-Type or a Fn-Http-H- header; with any
\* other Fn-Intent, or none, the context's request headers are the inbound
\* headers.
C22_IntentFilter ==
  Returned =>
    IF HttpRequestIntent
    THEN \A n \in HeaderNames :
           Made.headers[n] # <<>> => (n = "content-type" \/ n \in ProxiedNames)
    ELSE Made.headers = inbound

\* C22 witness: a httprequest request with Content-Type and Fn-Call-Id; the
\* context keeps the first and not the second.
C22_Witness ==
  /\ Returned
  /\ HttpRequestIntent
  /\ inbound["fn-call-id"] = <<"call-1">>
  /\ inbound["content-type"] = <<"text/plain">>
  /\ Made.headers["fn-call-id"] = <<>>
  /\ Made.headers["content-type"] = <<"text/plain">>

\* C23: with Fn-Intent: httprequest every inbound header named Content-Type
\* or starting with Fn-Http-H- is in the context's request headers with its
\* inbound value.
C23_ProxiedHeadersRetained ==
  (Returned /\ HttpRequestIntent) =>
    \A n \in {"content-type"} \cup ProxiedNames : Made.headers[n] = inbound[n]

\* C24: in either filter mode the context's method is present exactly when
\* the request carries Fn-Http-Method, its URI exactly when the request
\* carries Fn-Http-Request-Url, each the parsed value of the header, and the
\* call id is the value of the inbound Fn-Call-Id.
C24_MethodUriCallId ==
  Returned =>
    /\ is_some(Made.method) <=> inbound["fn-http-method"] # <<>>
    /\ is_some(Made.method) =>
         Made.method[1] = [method |-> inbound["fn-http-method"][1]]
    /\ is_some(Made.uri) <=> inbound["fn-http-request-url"] # <<>>
    /\ is_some(Made.uri) =>
         Made.uri[1] = [uri |-> inbound["fn-http-request-url"][1]]
    /\ inbound["fn-call-id"] # <<>> => Made.call_id = inbound["fn-call-id"][1]

\* The format each MIME string stands for; JSON for every other value.
MimeFormat(v) ==
  CASE v = "application/json" -> "JSON"
    [] v = "text/yaml" -> "YAML"
    [] v = "application/yaml" -> "YAML"
    [] v = "application/xml" -> "XML"
    [] v = "text/xml" -> "XML"
    [] v = "text/plain" -> "Plain"
    [] v = "application/x-www-form-urlencoded" -> "URLEncoded"
    [] OTHER -> "JSON"

\* C25: accept negotiation. The accept type is resolved from Fn-Http-H-Accept
\* when present, otherwise from Accept when present, otherwise it is JSON; so
\* with both present the value of Accept has no influence.
C25_AcceptNegotiation ==
  Returned =>
    Made.accept_type =
      IF inbound["fn-http-h-accept"] # <<>>
      THEN MimeFormat(inbound["fn-http-h-accept"][1])
      ELSE IF inbound["accept"] # <<>>
           THEN MimeFormat(inbound["accept"][1])
           ELSE "JSON"

\* C25 witness: both headers are present and name different formats; the
\* accept type is that of Fn-Http-H-Accept.
C25_Witness ==
  /\ Returned
  /\ inbound["fn-http-h-accept"] = <<"application/xml">>
  /\ inbound["accept"] = <<"text/yaml">>
  /\ Made.accept_type = "XML"

\* C26: content-type resolution is total and defaults to JSON: the decoder
\* is JSON when Content-Type is absent or not a recognized MIME string, and
\* the recognized strings select JSON, YAML, YAML, XML, XML, Plain and
\* URLEncoded.
C26_ContentTypeResolution ==
  Returned =>
    /\ Made.content_type \in ContentType
    /\ Made.content_type =
         IF inbound["content-type"] = <<>> THEN "JSON"
         ELSE MimeFormat(inbound["content-type"][1])

\* C26 witness: the request carries a Content-Type whose value is not text;
\* the decoder selected is JSON.
C26_Witness ==
  /\ Returned
  /\ inbound["content-type"] \in {<<v>> : v \in OpaqueValues}
  /\ Made.content_type = "JSON"

\* C27: round-trip law. For every format and every value the format can
\* encode, Strings with chars outside the single-byte range included,
\* decoding the encoder's bytes with the same format gives the value back.
C27_RoundTrip ==
  cstage = "decoded" => cback[1] = Ok(cvalue)

\* The error kinds that are user errors (is_user_error).
UserErrorKinds == {"InvalidInput", "BadRequest", "CoercionError"}

\* The response of a user error is written to the output in this step.
UserErrorEmitted ==
  /\ pc = "respond"
  /\ cause.kind \in UserErrorKinds
  /\ Len(output') = Len(output) + 1

\* The loop is where it is before any request: nothing of the request just
\* answered is left, and the next item is taken as the first one was.
LoopFresh ==
  /\ pc = "next"
  /\ ctx = None
  /\ resp = None
  /\ ops = 0
  /\ cause = NoCause
  /\ trace = <<>>
  /\ last_set = None
  /\ set_ok = None
  /\ added = HeaderMap_new

TaxonomyKind(from) ==
  CASE from = "std::io::Error" -> "IOError"
    [] from = "std::env::VarError" -> "InitializationError"
    [] from = "url::ParseError" -> "InitializationError"
    [] from = "hyper::Error" -> "ServerError"

\* C29: an error lifted from an external cause has the kind of the taxonomy:
\* I/O failure IO, missing environment variable or URL parse failure
\* Initialization, hyper failure Server, decoder or encoder failure
\* Coercion.
C29_LiftedKinds ==
  /\ is_some(elifted) =>
       /\ elifted[1].to = "returned"
       /\ elifted[1].e.kind = TaxonomyKind(ecause.from)
  /\ (is_some(cbytes) /\ ~cbytes[1].ok) => cbytes[1].e.kind = "CoercionError"
  /\ (is_some(cback) /\ ~cback[1].ok) => cback[1].e.kind = "CoercionError"

\* The responses of the list answer, in order, the first requests that the
\* last call of run took from the queue.
InEnqueueOrder ==
  \A k \in 1..Len(tb_responses) :
    /\ k <= Len(tb_last[1].drained)
    /\ tb_responses[k].req = tb_last[1].drained[k]

\* C30: FunctionTestbench.run consumes the whole queue and replaces the
\* results. After a call the queue is empty and the response list holds the
\* responses of that call alone, one per request processed, in enqueue order;
\* N requests that all succeed give N responses and exit code 0.
C30_RunReplacesResults ==
  is_some(tb_last) =>
    /\ tb_requests = <<>>
    /\ Len(tb_responses) = tb_last[1].processed
    /\ InEnqueueOrder
    /\ tb_last[1].all_ok =>
         /\ Len(tb_responses) = Len(tb_last[1].drained)
         /\ tb_exit = Some(0)

\* C30, amended: as C30 when the initializer succeeds; when it fails the
\* list holds the one response of the initialization error, no request is
\* processed and the exit code is 2.
C30_RunReplacesResultsOrInitError ==
  is_some(tb_last) =>
    /\ tb_requests = <<>>
    /\ IF tb_last[1].initialized
       THEN /\ Len(tb_responses) = tb_last[1].processed
            /\ InEnqueueOrder
       ELSE /\ tb_last[1].processed = 0
            /\ Len(tb_responses) = 1
            /\ tb_responses[1].req = [run |-> tb_runs, n |-> 0]
            /\ tb_responses[1].resp.status = BAD_GATEWAY
            /\ tb_exit = Some(2)
    /\ tb_last[1].all_ok =>
         /\ Len(tb_responses) = Len(tb_last[1].drained)
         /\ tb_exit = Some(0)

\* C30 witness: the second call of run took two requests, both succeeded, and
\* the list holds their two responses.
C30_Witness ==
  /\ tb_runs = 2
  /\ is_some(tb_last)
  /\ Len(tb_last[1].drained) = 2
  /\ tb_last[1].all_ok
  /\ Len(tb_responses) = 2
  /\ tb_responses[2].req = [run |-> 2, n |-> 2]

\* The run loop was entered: the initializer returned Ok.
LoopEntered ==
  /\ pc \notin {"init", "init_failed"}
  /\ responses # <<>> => responses[1].stage # "Initialize"

\* The exit code the documentation gives a status: 2 for 5xx, 1 for 4xx and
\* 0 otherwise.
DocumentedCode(status) ==
  IF 500 <= status /\ status <= 599 THEN 2
  ELSE IF 400 <= status /\ status <= 499 THEN 1 ELSE 0

\* The exit code of the last response handed to the writer: 2 when it could
\* not be written, the code of its status otherwise, 0 when there is none.
LastResponseCode ==
  IF responses = <<>> THEN 0
  ELSE IF Len(output) < Len(responses) THEN 2
  ELSE DocumentedCode(responses[Len(responses)].status)

\* C31: the run loop returns the exit code of the last response it wrote: 2
\* if that response has a 5xx status or could not be written, 1 if it has a
\* 4xx status, 0 otherwise and 0 when no request was received; once a
\* response with code 2 has been produced the loop has ended and no further
\* request is taken from the input.
C31_ExitCodeOfLastResponse ==
  /\ \A status \in {100, 200, 204, 399, 400, 404, 499, 500, 502, 599, 600, 999} :
       exit_code_from_response([status |-> status]) = DocumentedCode(status)
  /\ (LoopEntered /\ pc \in {"next", "done"}) => last_status = LastResponseCode
  /\ (LoopEntered /\ pc # "respond") =>
       /\ \A k \in 1..(Len(responses) - 1) :
            /\ k <= Len(output)
            /\ output[k] = responses[k]
            /\ DocumentedCode(responses[k].status) < 2
       /\ last_status = 2 => pc = "done"

\* C31 witness: the loop has returned 2 after writing a 5xx response to the
\* first request, and the request the input still holds was never taken.
C31_Witness ==
  /\ pc = "done"
  /\ taken = 1
  /\ input > 0
  /\ Len(output) = 1
  /\ output[1].status = BAD_GATEWAY
  /\ last_status = 2

WellFormedInput == \A k \in 1..Len(stdin_all) : stdin_all[k] # "read error"

\* The items next has returned are, in input order, the first requests of
\* the input.
YieldedInOrder ==
  /\ Len(yielded) <= Len(stdin_all)
  /\ \A k \in 1..Len(yielded) :
       /\ yielded[k].ok
       /\ yielded[k].v.id = k
       /\ yielded[k].v.method = "POST"

\* next has returned every request of the input and then the end.
Delivered ==
  /\ codec_pc = "ended"
  /\ Len(yielded) = Len(stdin_all)
  /\ YieldedInOrder

C34_FailedSetStatusKeepsContext ==
  [][(HandlerSetStatus /\ ~last_set'[1].ok) =>
       /\ get_status_code(ctx'[1]) = get_status_code(ctx[1])
       /\ ctx'[1].response_headers = ctx[1].response_headers]_vars

\* C34 witness: the handler set a valid status and then called
\* set_status_code with an invalid one; the first status is still there.
C34_Witness ==
  /\ pc = "invoke"
  /\ ops = 2
  /\ is_some(set_ok)
  /\ is_some(last_set)
  /\ ~last_set[1].ok
  /\ get_status_code(ctx[1]) = Some(set_ok[1])

\* C35: a failed bootstrap never advertises readiness. Whenever UDS::new
\* returns an error of its file-system steps (bind, chmod or symlink), also
\* when the removal of a stale target did not succeed, nothing lies at the
\* target path when it returns.
C35_FailedBootstrapNotReady ==
  (bpc = "returned" /\ ~bresult[1].ok /\ CleanupDone) => ~TargetExists

\* The values of Fn-Intent a request can carry; <<>> when it carries none.
IntentValues ==
  {<<>>, <<"httprequest">>, <<"cloudevent">>} \cup {<<v>> : v \in OpaqueValues}

\* The request that differs from the inbound one in Fn-Intent only.
WithIntent(v) == [headers |-> [inbound EXCEPT !["fn-intent"] = v]]

\* C36: content negotiation does not depend on the header-filter mode. Two
\* requests that differ only in the value of Fn-Intent, and for which a
\* context is built, are given the same content type and the same accept
\* type.
C36_NegotiationIgnoresIntent ==
  Returned =>
    \A v \in IntentValues :
      ~from_req_panics(WithIntent(v)) =>
        /\ RuntimeContext_from_req(WithIntent(v)).content_type
             = Made.content_type
        /\ RuntimeContext_from_req(WithIntent(v)).accept_type
             = Made.accept_type

\* C36 witness: a httprequest request with Content-Type: text/plain and
\* Accept: text/yaml, headers of which the filter drops the second; it and the
\* same request without Fn-Intent are given Plain and YAML.
C36_Witness ==
  /\ Returned
  /\ HttpRequestIntent
  /\ inbound["content-type"] = <<"text/plain">>
  /\ inbound["accept"] = <<"text/yaml">>
  /\ inbound["fn-http-h-accept"] = <<>>
  /\ Made.headers["accept"] = <<>>
  /\ Made.content_type = "Plain"
  /\ Made.accept_type = "YAML"
  /\ ~from_req_panics(WithIntent(<<>>))
  /\ RuntimeContext_from_req(WithIntent(<<>>)).accept_type = "YAML"

\* C37: building the context is total. For every inbound request, one whose
\* Fn-Intent is not text or whose Fn-Http-Method is not a method included,
\* from_req completes and returns a context.
C37_FromReqTotal == is_some(made) => made[1].to = "returned"

\* C38: the default codec yields exactly one item per process. The first
\* call of next returns one request or one error, every later call returns
\* the end of the stream, also after an error, and at most one response is
\* written.
C38_DefaultCodecOneItem ==
  /\ dc_items # <<>> => is_some(dc_items[1])
  /\ \A k \in 2..Len(dc_items) : dc_items[k] = None
  /\ Len(dc_out) <= 1

\* C38 witness: FN_METHOD is not set; the first call of next returned the
\* error, its response was written, and two later calls returned the end.
C38_Witness ==
  /\ dc_env.method = None
  /\ Len(dc_items) = 3
  /\ ~dc_items[1][1].ok
  /\ dc_items[2] = None
  /\ dc_items[3] = None
  /\ Len(dc_out) = 1

====
